---- MODULE Spec2Model ----
(***************************************************************************)
(* Single-line diagram builder: the edit history of App (recordChange,     *)
(* handleUndo, handleRedo, handleLoadDiagram), the edit handlers that feed *)
(* it, and the view derivation displayedData (default / focus / trace).    *)
(*                                                                         *)
(* Conventions                                                             *)
(*  - a JavaScript null / undefined string is the sentinel `null`;         *)
(*  - an AppState object carries `ref`, its object identity: every object  *)
(*    literal `{...prev, ...}` and every JSON.parse result is a new object *)
(*    and takes the next unused ref, so `a === b` is `a.ref = b.ref`;      *)
(*  - optional boolean flags (isExternal, isBoundary) are FALSE when the   *)
(*    property is absent; the optional array `groups` is the pair          *)
(*    (hasGroups, groups);                                                 *)
(*  - iconSvg, node properties and coordinates are not part of the model;  *)
(*    a link keeps its diameter so that parallel links stay distinct.      *)
(***************************************************************************)
EXTENDS Integers, Sequences, FiniteSets, TLC

VARIABLES
    history,         \* useState<History>: [past, present, future]
    nextRef,         \* next unused object identity
    reading,         \* files whose FileReader read is started and not yet delivered
    focusedGroupId,  \* useState<string | null>
    tracedNodeId,    \* useState<string | null>
    appMode,         \* useState<'view' | 'edit'>
    lastOp,          \* name of the handler that last went for the history
    rendered,        \* the last value computed for displayedData
    viewMode,        \* useState<'free' | 'fixed'>
    layout,          \* Diagram: the simulation nodes and tree after the layout effect
    tick             \* Diagram: the node positions and group outlines of the last tick

vars == <<history, nextRef, reading, focusedGroupId, tracedNodeId, appMode, lastOp,
          rendered, viewMode, layout, tick>>

null == "<null>"

-----------------------------------------------------------------------------
(* Bounds *)

MaxAllocs == 3      \* AppState objects created after construction
MaxReading == 1     \* file reads in flight at once
MaxLinks == 4       \* links of a diagram handed to the trace view or to the focus view
MaxViewLinks == 2   \* links of a diagram handed to displayedData with both selectors
MaxLayoutLinks == 3 \* links of a diagram handed to the fixed layout
MaxEdits == 2       \* AppState objects created in a run of the whole application

-----------------------------------------------------------------------------
(* Data model: types.ts *)

MkNode(id, type, label) ==
    [id |-> id, type |-> type, label |-> label, isExternal |-> FALSE]

MkLink(source, target, diameter) ==
    [source |-> source, target |-> target, diameter |-> diameter, isBoundary |-> FALSE]

MkGroup(id, label, nodeIds) ==
    [id |-> id, label |-> label, nodeIds |-> nodeIds]

MkDiagram(nodes, links, groups) ==
    [nodes |-> nodes, links |-> links, hasGroups |-> TRUE, groups |-> groups]

MkComponentType(type, label) == [type |-> type, label |-> label]

initialComponentTypes ==
    << MkComponentType("GENERATOR", "Generator"),
       MkComponentType("TRANSFORMER", "Transformer"),
       MkComponentType("BUS", "Bus"),
       MkComponentType("LOAD", "Load"),
       MkComponentType("BREAKER", "Breaker") >>

initialData ==
    MkDiagram(
      << MkNode("G1", "GENERATOR", "Generator 1"),
         MkNode("B1", "BREAKER", "Main Breaker"),
         MkNode("T1", "TRANSFORMER", "Transformer 1"),
         MkNode("BusA", "BUS", "Main Bus"),
         MkNode("L1", "LOAD", "Load 1"),
         MkNode("L2", "LOAD", "Load 2") >>,
      << MkLink("G1", "B1", "500 sq. mm."),
         MkLink("B1", "T1", "500 sq. mm."),
         MkLink("T1", "BusA", "240 sq. mm."),
         MkLink("BusA", "L1", "70 sq. mm."),
         MkLink("BusA", "L2", "95 sq. mm.") >>,
      << MkGroup("group1", "Generation Area", <<"G1", "B1">>),
         MkGroup("group2", "Distribution", <<"BusA", "L1", "L2">>) >>)

-----------------------------------------------------------------------------
(* Array helpers *)

Range(s) == { s[i] : i \in 1..Len(s) }

\* groups?.xxx || []  and  (groups || [])
GroupsOf(d) == IF d.hasGroups THEN d.groups ELSE <<>>

-----------------------------------------------------------------------------
(* Edit history: recordChange, handleUndo, handleRedo *)

\* recordChange that forgets to clear future
recordChange_keepsFuture(currentHistory, newPresent) ==
    IF newPresent.ref = currentHistory.present.ref
    THEN currentHistory
    ELSE [past |-> Append(currentHistory.past, currentHistory.present),
          present |-> newPresent,
          future |-> currentHistory.future]

\* recordChange without the `newPresent === currentHistory.present` test
recordChange_alwaysRecords(currentHistory, newPresent) ==
    [past |-> Append(currentHistory.past, currentHistory.present),
     present |-> newPresent,
     future |-> <<>>]

\* The updater has already been applied to currentHistory.present (line 120);
\* newPresent is its result.
recordChange(currentHistory, newPresent) ==
    IF newPresent.ref = currentHistory.present.ref
    THEN currentHistory
    ELSE [past |-> Append(currentHistory.past, currentHistory.present),
          present |-> newPresent,
          future |-> <<>>]

\* handleUndo that pushes the outgoing present at the far end of future
handleUndo_appendsToFuture(currentHistory) ==
    LET past == currentHistory.past
        present == currentHistory.present
        future == currentHistory.future
    IN IF Len(past) = 0
       THEN currentHistory
       ELSE [past |-> SubSeq(past, 1, Len(past) - 1),
             present |-> past[Len(past)],
             future |-> future \o <<present>>]

\* handleUndo that takes the oldest snapshot instead of the newest
handleUndo_takesOldest(currentHistory) ==
    LET past == currentHistory.past
        present == currentHistory.present
        future == currentHistory.future
    IN IF Len(past) = 0
       THEN currentHistory
       ELSE [past |-> Tail(past),
             present |-> past[1],
             future |-> <<present>> \o future]

handleUndo(currentHistory) ==
    LET past == currentHistory.past
        present == currentHistory.present
        future == currentHistory.future
    IN IF Len(past) = 0
       THEN currentHistory
       ELSE [past |-> SubSeq(past, 1, Len(past) - 1),
             present |-> past[Len(past)],
             future |-> <<present>> \o future]

\* handleRedo that takes the last element of future
handleRedo_takesLast(currentHistory) ==
    LET past == currentHistory.past
        present == currentHistory.present
        future == currentHistory.future
    IN IF Len(future) = 0
       THEN currentHistory
       ELSE [past |-> Append(past, present),
             present |-> future[Len(future)],
             future |-> SubSeq(future, 1, Len(future) - 1)]

handleRedo(currentHistory) ==
    LET past == currentHistory.past
        present == currentHistory.present
        future == currentHistory.future
    IN IF Len(future) = 0
       THEN currentHistory
       ELSE [past |-> Append(past, present),
             present |-> future[1],
             future |-> Tail(future)]

-----------------------------------------------------------------------------
(* String functions of the handlers, tabulated on the type names in use *)

\* type.substring(0, 2).toUpperCase()
BaseId(type) ==
    CASE type = "GENERATOR" -> "GE"
      [] type = "TRANSFORMER" -> "TR"
      [] type = "BUS" -> "BU"
      [] type = "LOAD" -> "LO"
      [] type = "BREAKER" -> "BR"
      [] type = "b" -> "B"
      [] type = "load" -> "LO"
      [] OTHER -> "??"

\* type.toUpperCase()
ToUpperCase(type) ==
    CASE type = "b" -> "B"
      [] type = "load" -> "LOAD"
      [] OTHER -> type

\* let count = 1; while (nodes.some(n => n.id === `${baseId}${count}`)) count++;
RECURSIVE FreeCount(_, _, _)
FreeCount(nodes, baseId, count) ==
    IF \E i \in 1..Len(nodes) : nodes[i].id = baseId \o ToString(count)
    THEN FreeCount(nodes, baseId, count + 1)
    ELSE count

\* componentTypes.find(c => c.type === type)
FindComponentType(componentTypes, type) ==
    LET hits == { i \in 1..Len(componentTypes) : componentTypes[i].type = type }
    IN IF hits = {} THEN 0 ELSE CHOOSE i \in hits : \A j \in hits : i <= j

-----------------------------------------------------------------------------
(* Updaters passed to recordChange.  Each returns a new AppState object     *)
(* (identity ref) built from prev.                                          *)

\* a removal that filters the nodes and the links and leaves the groups
removeNode_keepsGroups(prev, nodeId, ref) ==
    LET d == prev.diagramData
    IN [prev EXCEPT
          !.ref = ref,
          !.diagramData =
              [d EXCEPT
                 !.nodes = SelectSeq(d.nodes, LAMBDA n : n.id # nodeId),
                 !.links = SelectSeq(d.links, LAMBDA l : l.source # nodeId /\ l.target # nodeId)]]

removeNode(prev, nodeId, ref) ==
    LET d == prev.diagramData
        groups == GroupsOf(d)
        stripped == [i \in 1..Len(groups) |->
                        [groups[i] EXCEPT
                           !.nodeIds = SelectSeq(groups[i].nodeIds, LAMBDA id : id # nodeId)]]
        newGroups == SelectSeq(stripped, LAMBDA g : Len(g.nodeIds) > 0)
    IN [prev EXCEPT
          !.ref = ref,
          !.diagramData =
              [d EXCEPT
                 !.nodes = SelectSeq(d.nodes, LAMBDA n : n.id # nodeId),
                 !.links = SelectSeq(d.links, LAMBDA l : l.source # nodeId /\ l.target # nodeId),
                 !.hasGroups = TRUE,
                 !.groups = newGroups]]

addLink(prev, link, ref) ==
    [prev EXCEPT
       !.ref = ref,
       !.diagramData.links = Append(prev.diagramData.links, link)]

removeLink(prev, sourceId, targetId, ref) ==
    [prev EXCEPT
       !.ref = ref,
       !.diagramData.links =
           SelectSeq(prev.diagramData.links,
                     LAMBDA l : ~(l.source = sourceId /\ l.target = targetId))]

\* a drop that numbers the new node 1 without looking for a free id
handleDropNode_firstCount(prev, type, ref) ==
    LET baseId == BaseId(type)
        count == 1
        newId == baseId \o ToString(count)
        def == FindComponentType(prev.componentTypes, type)
        newLabel == (IF def # 0 THEN prev.componentTypes[def].label ELSE type)
                        \o " " \o ToString(count)
    IN [prev EXCEPT
          !.ref = ref,
          !.diagramData.nodes = Append(prev.diagramData.nodes, MkNode(newId, type, newLabel))]

handleDropNode(prev, type, ref) ==
    LET baseId == BaseId(type)
        count == FreeCount(prev.diagramData.nodes, baseId, 1)
        newId == baseId \o ToString(count)
        def == FindComponentType(prev.componentTypes, type)
        newLabel == (IF def # 0 THEN prev.componentTypes[def].label ELSE type)
                        \o " " \o ToString(count)
    IN [prev EXCEPT
          !.ref = ref,
          !.diagramData.nodes = Append(prev.diagramData.nodes, MkNode(newId, type, newLabel))]

handleAddNodeAndLink(prev, sourceNodeId, newNodeData, ref) ==
    LET baseId == BaseId(newNodeData.type)
        count == FreeCount(prev.diagramData.nodes, baseId, 1)
        newId == baseId \o ToString(count)
        newNode == MkNode(newId, newNodeData.type, newNodeData.label)
        newLink == MkLink(sourceNodeId, newId, newNodeData.diameter)
    IN [prev EXCEPT
          !.ref = ref,
          !.diagramData.nodes = Append(prev.diagramData.nodes, newNode),
          !.diagramData.links = Append(prev.diagramData.links, newLink)]

\* the early return of handleAddComponentType (alert, nothing recorded)
ComponentTypeExists(componentTypes, newComponent) ==
    \E i \in 1..Len(componentTypes) :
        ToUpperCase(componentTypes[i].type) = ToUpperCase(newComponent.type)

handleAddComponentType(prev, newComponent, ref) ==
    [prev EXCEPT
       !.ref = ref,
       !.componentTypes = Append(prev.componentTypes, newComponent)]

handleEditComponentType(prev, editedComponent, ref) ==
    [prev EXCEPT
       !.ref = ref,
       !.componentTypes =
           [i \in 1..Len(prev.componentTypes) |->
               IF prev.componentTypes[i].type = editedComponent.type
               THEN editedComponent
               ELSE prev.componentTypes[i]]]

handleAddGroup(prev, group, ref) ==
    [prev EXCEPT
       !.ref = ref,
       !.diagramData.hasGroups = TRUE,
       !.diagramData.groups = Append(GroupsOf(prev.diagramData), group)]

handleRemoveGroup(prev, groupId, ref) ==
    [prev EXCEPT
       !.ref = ref,
       !.diagramData.hasGroups = TRUE,
       !.diagramData.groups =
           SelectSeq(GroupsOf(prev.diagramData), LAMBDA g : g.id # groupId)]

handleUpdateGroup(prev, groupId, nodeIds, ref) ==
    [prev EXCEPT
       !.ref = ref,
       !.diagramData.hasGroups = TRUE,
       !.diagramData.groups =
           [i \in 1..Len(GroupsOf(prev.diagramData)) |->
               IF GroupsOf(prev.diagramData)[i].id = groupId
               THEN [GroupsOf(prev.diagramData)[i] EXCEPT !.nodeIds = nodeIds]
               ELSE GroupsOf(prev.diagramData)[i]]]

-----------------------------------------------------------------------------
(* Loading a file: handleLoadDiagram and reader.onload *)

\* A JSON value that may or may not be an array (Array.isArray)
Arr(items) == [isArray |-> TRUE, items |-> items]
NoArr == [isArray |-> FALSE, items |-> <<>>]

\* The text of a file, by what JSON.parse makes of it: whether it parses, and
\* the properties the handler reads from the parsed object.
MkFile(parses, hasDiagramData, dNodes, dLinks, dGroups, componentTypes, nodes, links, groups) ==
    [parses |-> parses, hasDiagramData |-> hasDiagramData,
     dNodes |-> dNodes, dLinks |-> dLinks, dGroups |-> dGroups,
     componentTypes |-> componentTypes,
     nodes |-> nodes, links |-> links, groups |-> groups]

\* the "Basic validation" condition
IsCurrentFormat(f) ==
    f.hasDiagramData /\ f.dNodes.isArray /\ f.dLinks.isArray /\ f.componentTypes.isArray

\* the "Fallback for old format" condition
IsOldFormat(f) == f.nodes.isArray

\* loadedState, as the AppState object JSON.parse returned
LoadedState(f, ref) ==
    [ref |-> ref,
     diagramData |-> [nodes |-> f.dNodes.items, links |-> f.dLinks.items,
                      hasGroups |-> f.dGroups.isArray, groups |-> f.dGroups.items],
     componentTypes |-> f.componentTypes.items]

\* { diagramData: oldFormatData, componentTypes: initialComponentTypes }
OldFormatState(f, ref) ==
    [ref |-> ref,
     diagramData |-> [nodes |-> f.nodes.items, links |-> f.links.items,
                      hasGroups |-> f.groups.isArray, groups |-> f.groups.items],
     componentTypes |-> initialComponentTypes]

\* onload that records the load as an undoable edit
onload_keepsPast(currentHistory, f, ref) ==
    IF ~f.parses THEN currentHistory
    ELSE IF IsCurrentFormat(f)
         THEN recordChange(currentHistory, LoadedState(f, ref))
         ELSE IF IsOldFormat(f)
              THEN recordChange(currentHistory, OldFormatState(f, ref))
              ELSE currentHistory

\* onload whose old-format fallback takes any parsed object, with or
\* without a nodes array
onload_anyObject(currentHistory, f, ref) ==
    IF ~f.parses THEN currentHistory
    ELSE IF IsCurrentFormat(f)
         THEN [past |-> <<>>, present |-> LoadedState(f, ref), future |-> <<>>]
         ELSE [past |-> <<>>, present |-> OldFormatState(f, ref), future |-> <<>>]

\* reader.onload: the history it leaves
onload(currentHistory, f, ref) ==
    IF ~f.parses THEN currentHistory
    ELSE IF IsCurrentFormat(f)
         THEN [past |-> <<>>, present |-> LoadedState(f, ref), future |-> <<>>]
         ELSE IF IsOldFormat(f)
              THEN [past |-> <<>>, present |-> OldFormatState(f, ref), future |-> <<>>]
              ELSE currentHistory

-----------------------------------------------------------------------------
(* View derivation: displayedData *)

\* `if (tracedNodeId)`, `if (focusedGroupId)`: null and "" are both falsy
Truthy(id) == id # null /\ id # ""

\* linkMap keyed by source: the search would run downstream
ParentIds_downstream(links, currentNodeId) ==
    LET outOf == SelectSeq(links, LAMBDA l : l.source = currentNodeId)
    IN [i \in 1..Len(outOf) |-> outOf[i].target]

\* linkMap.get(currentNodeId) || []: the sources of the links into
\* currentNodeId, in link order
ParentIds(links, currentNodeId) ==
    LET into == SelectSeq(links, LAMBDA l : l.target = currentNodeId)
    IN [i \in 1..Len(into) |-> into[i].source]

\* diagramData.links.find(l => l.source === parentId && l.target === currentNodeId),
\* as the index of the link found (0: undefined)
FindLink(links, parentId, currentNodeId) ==
    LET hits == { i \in 1..Len(links) :
                     links[i].source = parentId /\ links[i].target = currentNodeId }
    IN IF hits = {} THEN 0 ELSE CHOOSE i \in hits : \A j \in hits : i <= j

\* Set.prototype.add on pathLinks, a Set<Link> of link objects kept here as
\* the sequence of their indices in insertion order
AddLinkToSet(pathLinks, i) ==
    IF \E k \in 1..Len(pathLinks) : pathLinks[k] = i THEN pathLinks ELSE Append(pathLinks, i)

\* the loop body with the link collected outside `if (!visited.has(parentId))`
RECURSIVE TraceParents_everyLink(_, _, _, _, _)
TraceParents_everyLink(links, currentNodeId, parentIds, k, st) ==
    IF k > Len(parentIds) THEN st
    ELSE LET parentId == parentIds[k]
             hits == { i \in 1..Len(links) :
                          links[i].source = parentId /\ links[i].target = currentNodeId
                          /\ \A j \in 1..Len(st.pathLinks) : st.pathLinks[j] # i }
             nextLink == IF hits = {} THEN 0 ELSE CHOOSE i \in hits : \A j \in hits : i <= j
             collected == IF nextLink # 0 THEN Append(st.pathLinks, nextLink) ELSE st.pathLinks
         IN IF parentId \notin st.visited
            THEN TraceParents_everyLink(links, currentNodeId, parentIds, k + 1,
                    [q |-> Append(st.q, parentId),
                     visited |-> st.visited \cup {parentId},
                     pathNodeIds |-> Append(st.pathNodeIds, parentId),
                     pathLinks |-> collected])
            ELSE TraceParents_everyLink(links, currentNodeId, parentIds, k + 1,
                    [st EXCEPT !.pathLinks = collected])

\* for (const parentId of parentIds) { ... }, from position k on
RECURSIVE TraceParents(_, _, _, _, _)
TraceParents(links, currentNodeId, parentIds, k, st) ==
    IF k > Len(parentIds) THEN st
    ELSE LET parentId == parentIds[k]
             originalLink == FindLink(links, parentId, currentNodeId)
         IN IF parentId \notin st.visited
            THEN TraceParents(links, currentNodeId, parentIds, k + 1,
                    [q |-> Append(st.q, parentId),
                     visited |-> st.visited \cup {parentId},
                     pathNodeIds |-> Append(st.pathNodeIds, parentId),
                     pathLinks |-> IF originalLink # 0
                                   THEN AddLinkToSet(st.pathLinks, originalLink)
                                   ELSE st.pathLinks])
            ELSE TraceParents(links, currentNodeId, parentIds, k + 1, st)

\* while (q.length > 0) { const currentNodeId = q.shift(); ... }
RECURSIVE TraceLoop(_, _)
TraceLoop(links, st) ==
    IF Len(st.q) = 0 THEN st
    ELSE LET currentNodeId == Head(st.q)
         IN TraceLoop(links,
                TraceParents(links, currentNodeId, ParentIds(links, currentNodeId), 1,
                             [st EXCEPT !.q = Tail(st.q)]))

\* the search from tracedNodeId: q, visited, pathNodeIds (a Set, kept in
\* insertion order) and pathLinks when the loop ends
TraceSearch(diagramData, nodeId) ==
    TraceLoop(diagramData.links,
              [q |-> <<nodeId>>, visited |-> {nodeId}, pathNodeIds |-> <<nodeId>>,
               pathLinks |-> <<>>])

\* the trace branch
TraceView(diagramData, nodeId) ==
    LET st == TraceSearch(diagramData, nodeId)
    IN [nodes |-> SelectSeq(diagramData.nodes, LAMBDA n : n.id \in st.visited),
        links |-> [k \in 1..Len(st.pathLinks) |-> diagramData.links[st.pathLinks[k]]],
        hasGroups |-> TRUE,
        groups |-> <<>>]

\* diagramData.groups?.find(g => g.id === focusedGroupId), as an index (0: undefined)
FindGroup(diagramData, groupId) ==
    LET groups == GroupsOf(diagramData)
        hits == { i \in 1..Len(groups) : groups[i].id = groupId }
    IN IF hits = {} THEN 0 ELSE CHOOSE i \in hits : \A j \in hits : i <= j

\* diagramData.nodes.find(n => n.id === externalNodeId), as an index (0: undefined)
FindNode(nodes, nodeId) ==
    LET hits == { i \in 1..Len(nodes) : nodes[i].id = nodeId }
    IN IF hits = {} THEN 0 ELSE CHOOSE i \in hits : \A j \in hits : i <= j

\* the scan with `sourceInGroup || targetInGroup` as the boundary test
RECURSIVE FocusScan_anyLink(_, _, _, _)
FocusScan_anyLink(diagramData, nodeIdsInGroup, i, acc) ==
    IF i > Len(diagramData.links) THEN acc
    ELSE LET link == diagramData.links[i]
             sourceInGroup == link.source \in nodeIdsInGroup
             targetInGroup == link.target \in nodeIdsInGroup
             externalNodeId == IF sourceInGroup THEN link.target ELSE link.source
             externalNode == FindNode(diagramData.nodes, externalNodeId)
             known == \E k \in 1..Len(acc.externalNodes) :
                         acc.externalNodes[k].id = externalNodeId
         IN IF sourceInGroup \/ targetInGroup
            THEN FocusScan_anyLink(diagramData, nodeIdsInGroup, i + 1,
                    [externalNodes |->
                        IF externalNode # 0 /\ ~known
                        THEN Append(acc.externalNodes,
                                    [diagramData.nodes[externalNode] EXCEPT !.isExternal = TRUE])
                        ELSE acc.externalNodes,
                     boundaryLinks |-> Append(acc.boundaryLinks, [link EXCEPT !.isBoundary = TRUE])])
            ELSE FocusScan_anyLink(diagramData, nodeIdsInGroup, i + 1, acc)

\* diagramData.links.forEach(link => { ... }) of the focus branch, from link i on
RECURSIVE FocusScan(_, _, _, _)
FocusScan(diagramData, nodeIdsInGroup, i, acc) ==
    IF i > Len(diagramData.links) THEN acc
    ELSE LET link == diagramData.links[i]
             sourceInGroup == link.source \in nodeIdsInGroup
             targetInGroup == link.target \in nodeIdsInGroup
             externalNodeId == IF sourceInGroup THEN link.target ELSE link.source
             externalNode == FindNode(diagramData.nodes, externalNodeId)
             known == \E k \in 1..Len(acc.externalNodes) :
                         acc.externalNodes[k].id = externalNodeId
         IN IF sourceInGroup # targetInGroup
            THEN FocusScan(diagramData, nodeIdsInGroup, i + 1,
                    [externalNodes |->
                        IF externalNode # 0 /\ ~known
                        THEN Append(acc.externalNodes,
                                    [diagramData.nodes[externalNode] EXCEPT !.isExternal = TRUE])
                        ELSE acc.externalNodes,
                     boundaryLinks |-> Append(acc.boundaryLinks, [link EXCEPT !.isBoundary = TRUE])])
            ELSE FocusScan(diagramData, nodeIdsInGroup, i + 1, acc)

\* the focus branch
FocusView(diagramData, groupId) ==
    LET g == FindGroup(diagramData, groupId)
        focusedGroup == GroupsOf(diagramData)[g]
        nodeIdsInGroup == Range(focusedGroup.nodeIds)
        internalNodes == SelectSeq(diagramData.nodes, LAMBDA n : n.id \in nodeIdsInGroup)
        internalLinks == SelectSeq(diagramData.links,
                            LAMBDA l : l.source \in nodeIdsInGroup /\ l.target \in nodeIdsInGroup)
        scan == FocusScan(diagramData, nodeIdsInGroup, 1,
                          [externalNodes |-> <<>>, boundaryLinks |-> <<>>])
    IN IF g = 0
       THEN MkDiagram(<<>>, <<>>, <<>>)
       ELSE [nodes |-> internalNodes \o scan.externalNodes,
             links |-> internalLinks \o scan.boundaryLinks,
             hasGroups |-> TRUE,
             groups |-> <<focusedGroup>>]

\* the two `if` blocks in the other order
displayedData_focusFirst(diagramData, groupId, nodeId) ==
    IF Truthy(groupId) THEN FocusView(diagramData, groupId)
    ELSE IF Truthy(nodeId) THEN TraceView(diagramData, nodeId)
    ELSE diagramData

displayedData(diagramData, groupId, nodeId) ==
    IF Truthy(nodeId) THEN TraceView(diagramData, nodeId)
    ELSE IF Truthy(groupId) THEN FocusView(diagramData, groupId)
    ELSE diagramData

-----------------------------------------------------------------------------
(* Diagram: the fixed (hierarchical) layout.  A simulation node is a copy   *)
(* of a displayed node; `fixed` says that its fx and fy hold numbers, and   *)
(* fy is the vertical one.  The horizontal coordinate that d3.tree computes *)
(* is not modelled beyond being set together with fy.                       *)

DUMMY_ROOT == "__DUMMY_ROOT__"

verticalSpacing == 160

\* data.nodes.map(n => ({ ...n })): no fx, fy yet
SimNode(n) == [id |-> n.id, isExternal |-> n.isExternal, fixed |-> FALSE, fy |-> 0]

\* the keys of nodeMap (and of adj): the ids of the nodes
nodeMap(nodes) == { nodes[i].id : i \in 1..Len(nodes) }

\* adj: for each node id, the targets of the links leaving it, in link order
adj(nodes, links) ==
    [id \in nodeMap(nodes) |->
        LET out == SelectSeq(links, LAMBDA l : l.source = id)
        IN [k \in 1..Len(out) |-> out[k].target]]

\* targetIds: every link's target, whether or not its source is a node
targetIds(links) == { links[i].target : i \in 1..Len(links) }

\* the fallback taking the last node
rootNodes_fallbackLast(nodes, links) ==
    LET free == SelectSeq(nodes, LAMBDA n : n.id \notin targetIds(links))
    IN IF Len(free) = 0 /\ Len(nodes) > 0
       THEN << nodes[Len(nodes)].id >>
       ELSE [k \in 1..Len(free) |-> free[k].id]

\* rootNodes (as ids): the nodes that are never a target, or else nodes[0]
rootNodes(nodes, links) ==
    LET free == SelectSeq(nodes, LAMBDA n : n.id \notin targetIds(links))
    IN IF Len(free) = 0 /\ Len(nodes) > 0
       THEN << nodes[1].id >>
       ELSE [k \in 1..Len(free) |-> free[k].id]

\* parent.children.unshift(childNode) in place of push
RECURSIVE AddChildren_unshift(_, _, _, _, _)
AddChildren_unshift(nodes, parent, childrenIds, k, st) ==
    IF k > Len(childrenIds) THEN st
    ELSE LET childId == childrenIds[k]
             childNode == childId \in nodeMap(nodes)
         IN IF childId \notin st.visited
            THEN AddChildren_unshift(nodes, parent, childrenIds, k + 1,
                    [visited |-> st.visited \cup {childId},
                     q |-> IF childNode THEN Append(st.q, childId) ELSE st.q,
                     children |-> IF childNode
                                  THEN [st.children EXCEPT ![parent] = <<childId>> \o @]
                                  ELSE st.children])
            ELSE AddChildren_unshift(nodes, parent, childrenIds, k + 1, st)

\* for (const childId of childrenIds) { ... }, from the k-th id on;
\* st = [q, visited, children]
RECURSIVE AddChildren(_, _, _, _, _)
AddChildren(nodes, parent, childrenIds, k, st) ==
    IF k > Len(childrenIds) THEN st
    ELSE LET childId == childrenIds[k]
             childNode == childId \in nodeMap(nodes)
         IN IF childId \notin st.visited
            THEN AddChildren(nodes, parent, childrenIds, k + 1,
                    [visited |-> st.visited \cup {childId},
                     q |-> IF childNode THEN Append(st.q, childId) ELSE st.q,
                     children |-> IF childNode
                                  THEN [st.children EXCEPT ![parent] = Append(@, childId)]
                                  ELSE st.children])
            ELSE AddChildren(nodes, parent, childrenIds, k + 1, st)

\* a depth-first build: the newest queued node that still has an unvisited
\* neighbour takes that neighbour as its child, one at a time
RECURSIVE BuildLoop_depthFirst(_, _, _, _)
BuildLoop_depthFirst(nodes, links, head, st) ==
    LET a == adj(nodes, links)
        open == { i \in 1..Len(st.q) :
                    \E k \in 1..Len(a[st.q[i]]) : a[st.q[i]][k] \notin st.visited }
    IN IF open = {} THEN st
       ELSE LET i == CHOOSE x \in open : \A y \in open : y <= x
                parent == st.q[i]
                k == CHOOSE x \in 1..Len(a[parent]) :
                        /\ a[parent][x] \notin st.visited
                        /\ \A y \in 1..(x - 1) : a[parent][y] \in st.visited
            IN BuildLoop_depthFirst(nodes, links, head,
                    AddChildren(nodes, parent, << a[parent][k] >>, 1, st))

\* while (head < q.length) { ... }
RECURSIVE BuildLoop(_, _, _, _)
BuildLoop(nodes, links, head, st) ==
    IF head > Len(st.q) THEN st
    ELSE LET parent == st.q[head]
             clean == [st EXCEPT !.children[parent] = <<>>]
         IN BuildLoop(nodes, links, head + 1,
                      AddChildren(nodes, parent, adj(nodes, links)[parent], 1, clean))

NoHierarchy ==
    [isNull |-> TRUE, virtual |-> FALSE, rootNodes |-> <<>>, q |-> <<>>, children |-> <<>>]

\* the tree handed to d3.hierarchy: the roots, each node's children, whether
\* the roots hang under the virtual root; q is the queue as the loop left it
buildHierarchy(nodes, links) ==
    IF Len(nodes) = 0 THEN NoHierarchy
    ELSE LET roots == rootNodes(nodes, links)
             st == BuildLoop(nodes, links, 1,
                             [q |-> roots, visited |-> Range(roots),
                              children |-> [id \in nodeMap(nodes) |-> <<>>]])
         IN [isNull |-> FALSE, virtual |-> Len(roots) > 1, rootNodes |-> roots,
             q |-> st.q, children |-> st.children]

\* d => d.children of a hierarchy node
ChildrenOf(h, d) == IF d.virtual THEN h.rootNodes ELSE h.children[d.id]

\* d3.hierarchy(hierarchyData, ...).descendants(): the tree in breadth-first
\* order, each node with its depth below the hierarchy's root
RECURSIVE descendants(_, _, _)
descendants(h, list, i) ==
    IF i > Len(list) THEN list
    ELSE LET cs == ChildrenOf(h, list[i])
         IN descendants(h,
                list \o [k \in 1..Len(cs) |->
                            [id |-> cs[k], depth |-> list[i].depth + 1,
                             virtual |-> FALSE, parent |-> list[i].id]],
                i + 1)

root(h) ==
    [id |-> IF h.virtual THEN DUMMY_ROOT ELSE h.rootNodes[1], depth |-> 0,
     virtual |-> h.virtual, parent |-> null]

\* d3.tree().nodeSize([horizontalSpacing, verticalSpacing]): y = depth * dy
treeLayout(d) == d.depth * verticalSpacing

\* minY over the descendants
minY(ds) ==
    LET ys == { treeLayout(ds[i]) : i \in 1..Len(ds) }
    IN CHOOSE y \in ys : \A z \in ys : y <= z

\* descendants.forEach(d => { const originalNode = nodes.find(...); ... }),
\* from the i-th descendant on
RECURSIVE WriteBack(_, _, _, _)
WriteBack(nodes, ds, min, i) ==
    IF i > Len(ds) THEN nodes
    ELSE LET originalNode == FindNode(nodes, ds[i].id)
         IN IF originalNode = 0 THEN WriteBack(nodes, ds, min, i + 1)
            ELSE IF ds[i].id = DUMMY_ROOT
            THEN WriteBack([nodes EXCEPT ![originalNode].fixed = FALSE,
                                         ![originalNode].fy = 0], ds, min, i + 1)
            ELSE WriteBack([nodes EXCEPT ![originalNode].fixed = TRUE,
                                         ![originalNode].fy = treeLayout(ds[i]) - min],
                           ds, min, i + 1)

NotLaidOut ==
    [done |-> FALSE, nodes |-> <<>>, hierarchy |-> NoHierarchy, descendants |-> <<>>]

\* the effect with viewMode 'fixed' on the displayed data
FixedLayoutOf(data) ==
    LET nodes == [i \in 1..Len(data.nodes) |-> SimNode(data.nodes[i])]
        hierarchyData == buildHierarchy(nodes, data.links)
        ds == descendants(hierarchyData, << root(hierarchyData) >>, 1)
    IN IF hierarchyData.isNull
       THEN [done |-> TRUE, nodes |-> nodes, hierarchy |-> hierarchyData,
             descendants |-> <<>>]
       ELSE [done |-> TRUE, nodes |-> WriteBack(nodes, ds, minY(ds), 1),
             hierarchy |-> hierarchyData, descendants |-> ds]

-----------------------------------------------------------------------------
(* Diagram: the group outlines computed on a simulation tick *)

iconSize == 40

groupPadding == (iconSize * 3) \div 2

NotTicked == [done |-> FALSE, nodes |-> <<>>, groupPathData |-> <<>>]

\* a node of the simulation at a tick: d3 writes x and y on the node object;
\* x and y are read only when positioned
TickNode(n, positioned, x, y) ==
    [id |-> n.id, isExternal |-> n.isExternal, positioned |-> positioned, x |-> x, y |-> y]

\* nodes.find(n => n.id === nodeId && !n.isExternal), as an index (0: undefined)
FindInternalNode(nodes, nodeId) ==
    LET hits == { i \in 1..Len(nodes) : nodes[i].id = nodeId /\ ~nodes[i].isExternal }
    IN IF hits = {} THEN 0 ELSE CHOOSE i \in hits : \A j \in hits : i <= j

\* the members looked up among all nodes, ghosts included, and kept whether
\* or not they have a position
groupNodes_anyNode(nodes, group) ==
    LET found == [k \in 1..Len(group.nodeIds) |-> FindNode(nodes, group.nodeIds[k])]
        kept == SelectSeq(found, LAMBDA i : i # 0)
    IN [k \in 1..Len(kept) |-> nodes[kept[k]]]

\* group.nodeIds.map(find).filter(n => !!n && n.x !== undefined && n.y !== undefined)
groupNodes(nodes, group) ==
    LET found == [k \in 1..Len(group.nodeIds) |-> FindInternalNode(nodes, group.nodeIds[k])]
        kept == SelectSeq(found, LAMBDA i : i # 0 /\ nodes[i].positioned)
    IN [k \in 1..Len(kept) |-> nodes[kept[k]]]

d3min(coords) == CHOOSE c \in Range(coords) : \A d \in Range(coords) : c <= d

d3max(coords) == CHOOSE c \in Range(coords) : \A d \in Range(coords) : c >= d

\* the rectangle the path string is drawn from
groupBox(members) ==
    LET xCoords == [k \in 1..Len(members) |-> members[k].x]
        yCoords == [k \in 1..Len(members) |-> members[k].y]
        bMinX == d3min(xCoords) - groupPadding
        bMaxX == d3max(xCoords) + groupPadding
        bMinY == d3min(yCoords) - groupPadding - 20
        bMaxY == d3max(yCoords) + groupPadding
    IN [minX |-> bMinX, maxX |-> bMaxX, minY |-> bMinY, maxY |-> bMaxY,
        width |-> bMaxX - bMinX, height |-> bMaxY - bMinY]

\* groupPathData after the forEach: a key for each group id that got a path,
\* the last group of that id that has members deciding
groupPathData(nodes, groups) ==
    LET drawn == { i \in 1..Len(groups) : Len(groupNodes(nodes, groups[i])) > 0 }
    IN [id \in { groups[i].id : i \in drawn } |->
          LET last == CHOOSE i \in drawn :
                         /\ groups[i].id = id
                         /\ \A j \in drawn : groups[j].id = id => j <= i
          IN groupBox(groupNodes(nodes, groups[last]))]

-----------------------------------------------------------------------------
(* Inputs *)

FileCurrent ==
    MkFile(TRUE, TRUE,
           Arr(<<MkNode("S1", "BUS", "Bus S1"), MkNode("S2", "LOAD", "Load S2")>>),
           Arr(<<MkLink("S1", "S2", "")>>), NoArr,
           Arr(<<MkComponentType("BUS", "Busbar"), MkComponentType("LOAD", "Load")>>),
           NoArr, NoArr, NoArr)

FileLegacy ==
    MkFile(TRUE, FALSE, NoArr, NoArr, NoArr, NoArr,
           Arr(<<MkNode("G1", "GENERATOR", "Old generator"), MkNode("L9", "LOAD", "Old load")>>),
           Arr(<<MkLink("G1", "L9", "16 sq. mm.")>>),
           Arr(<<MkGroup("old", "Old group", <<"G1">>)>>))

\* current shape but no componentTypes, and no top-level nodes
FileNoRegistry ==
    MkFile(TRUE, TRUE,
           Arr(<<MkNode("S1", "BUS", "Bus S1")>>), Arr(<<>>), NoArr,
           NoArr, NoArr, NoArr, NoArr)

FileGarbage ==
    MkFile(FALSE, FALSE, NoArr, NoArr, NoArr, NoArr, NoArr, NoArr, NoArr)

\* parses, but has a nodes array in neither shape
FileNoNodes ==
    MkFile(TRUE, TRUE,
           NoArr, Arr(<<>>), NoArr,
           Arr(<<MkComponentType("BUS", "Busbar")>>),
           NoArr, Arr(<<>>), NoArr)

Files == {FileCurrent, FileLegacy, FileNoRegistry, FileNoNodes, FileGarbage}

\* An updater handed to recordChange, by the handler that builds it and the
\* handler's arguments; "identity" is prev => prev.
Mut(kind, a, b) == [kind |-> kind, a |-> a, b |-> b]

Mutators ==
    { Mut("identity", "", ""),
      Mut("removeNode", "G1", ""),
      Mut("addLink", "L1", "L2"),
      Mut("handleDropNode", "b", ""),
      Mut("handleAddComponentType", "b", "Battery"),
      Mut("handleAddComponentType", "load", "Load again") }

\* updater(currentHistory.present)
Updater(m, prev, ref) ==
    CASE m.kind = "identity" -> prev
      [] m.kind = "removeNode" -> removeNode(prev, m.a, ref)
      [] m.kind = "addLink" -> addLink(prev, MkLink(m.a, m.b, ""), ref)
      [] m.kind = "removeLink" -> removeLink(prev, m.a, m.b, ref)
      [] m.kind = "handleDropNode" -> handleDropNode(prev, m.a, ref)
      [] m.kind = "handleAddNodeAndLink" ->
             handleAddNodeAndLink(prev, m.a, [type |-> m.b, label |-> "New", diameter |-> ""], ref)
      [] m.kind = "handleAddComponentType" ->
             handleAddComponentType(prev, MkComponentType(m.a, m.b), ref)
      [] m.kind = "handleEditComponentType" ->
             handleEditComponentType(prev, MkComponentType(m.a, m.b), ref)
      [] m.kind = "handleAddGroup" -> handleAddGroup(prev, MkGroup(m.a, m.b, <<>>), ref)
      [] m.kind = "handleRemoveGroup" -> handleRemoveGroup(prev, m.a, ref)
      [] m.kind = "handleUpdateGroup" -> handleUpdateGroup(prev, m.a, <<m.b>>, ref)

\* the handler returns before it calls recordChange
ReturnsEarly(m, present) ==
    m.kind = "handleAddComponentType"
        /\ ComponentTypeExists(present.componentTypes, MkComponentType(m.a, m.b))

-----------------------------------------------------------------------------
(* The state after construction *)

NotRendered == [done |-> FALSE, data |-> MkDiagram(<<>>, <<>>, <<>>)]

Init ==
    /\ history = [past |-> <<>>,
                  present |-> [ref |-> 0, diagramData |-> initialData,
                               componentTypes |-> initialComponentTypes],
                  future |-> <<>>]
    /\ nextRef = 1
    /\ reading = {}
    /\ focusedGroupId = null
    /\ tracedNodeId = null
    /\ appMode = "view"
    /\ lastOp = "init"
    /\ rendered = NotRendered
    /\ viewMode = "fixed"
    /\ layout = NotLaidOut
    /\ tick = NotTicked

-----------------------------------------------------------------------------
(* The edit history on its own: recordChange with any updater, undo, redo,  *)
(* and the load that replaces the history.                                  *)

Apply(m) ==
    /\ ~ReturnsEarly(m, history.present)
    /\ m.kind # "identity" => nextRef <= MaxAllocs
    /\ history' = recordChange(history, Updater(m, history.present, nextRef))
    /\ nextRef' = IF m.kind = "identity" THEN nextRef ELSE nextRef + 1
    /\ lastOp' = "recordChange"
    /\ UNCHANGED <<reading, focusedGroupId, tracedNodeId, appMode, rendered, viewMode, layout, tick>>

Undo ==
    /\ history' = handleUndo(history)
    /\ lastOp' = "handleUndo"
    /\ UNCHANGED <<nextRef, reading, focusedGroupId, tracedNodeId, appMode, rendered, viewMode, layout, tick>>

Redo ==
    /\ history' = handleRedo(history)
    /\ lastOp' = "handleRedo"
    /\ UNCHANGED <<nextRef, reading, focusedGroupId, tracedNodeId, appMode, rendered, viewMode, layout, tick>>

\* handleLoadDiagram: reader.readAsText(file); the history is untouched
\* until the read is delivered.
LoadDiagram(f) ==
    /\ Cardinality(reading) < MaxReading
    /\ reading' = reading \cup {f}
    /\ lastOp' = "handleLoadDiagram"
    /\ UNCHANGED <<history, nextRef, focusedGroupId, tracedNodeId, appMode, rendered, viewMode, layout, tick>>

\* reader.onload of any read in flight
ReaderOnload(f) ==
    /\ f \in reading
    /\ f.parses => nextRef <= MaxAllocs
    /\ history' = onload(history, f, nextRef)
    /\ nextRef' = IF f.parses THEN nextRef + 1 ELSE nextRef
    /\ reading' = reading \ {f}
    /\ lastOp' = "onload"
    /\ UNCHANGED <<focusedGroupId, tracedNodeId, appMode, rendered, viewMode, layout, tick>>

NextHistory ==
    \/ \E m \in Mutators : Apply(m)
    \/ Undo
    \/ Redo
    \/ \E f \in Files : LoadDiagram(f)
    \/ \E f \in Files : ReaderOnload(f)

SpecHistory == Init /\ [][NextHistory]_vars

-----------------------------------------------------------------------------
(* displayedData on its own: the diagram and the two selectors are drawn    *)
(* from bounded sets, and rendering computes the view.                      *)

ViewNode(id) == MkNode(id, "BUS", id)

\* node arrays over A..D: all four, in two orders, and each with one node
\* missing (links to the missing node dangle)
ViewNodeLists ==
    { <<ViewNode("A"), ViewNode("B"), ViewNode("C"), ViewNode("D")>>,
      <<ViewNode("D"), ViewNode("C"), ViewNode("B"), ViewNode("A")>>,
      <<ViewNode("B"), ViewNode("C"), ViewNode("D")>>,
      <<ViewNode("A"), ViewNode("C"), ViewNode("D")>>,
      <<ViewNode("A"), ViewNode("B"), ViewNode("D")>>,
      <<ViewNode("A"), ViewNode("B"), ViewNode("C")>> }

\* the links a diagram is assembled from: the diamond, the chain's middle
\* link, a link closing a cycle, a second link parallel to B -> D, and a
\* self-link
LinkChoices ==
    { MkLink("A", "B", ""), MkLink("A", "C", ""), MkLink("B", "D", ""),
      MkLink("C", "D", ""), MkLink("B", "C", ""), MkLink("D", "A", ""),
      MkLink("B", "D", "25 sq. mm."), MkLink("D", "D", "") }

\* link arrays of at most n distinct links, in every order
LinkLists(n) ==
    UNION { { l \in [1..k -> LinkChoices] : \A i, j \in 1..k : i # j => l[i] # l[j] }
            : k \in 0..n }

ViewGroups == << MkGroup("g1", "Group 1", <<"B", "C">>) >>

ViewHistory(diagramData) ==
    [past |-> <<>>,
     present |-> [ref |-> 0, diagramData |-> diagramData,
                  componentTypes |-> initialComponentTypes],
     future |-> <<>>]

InitView(diagramData, groupId, nodeId) ==
    /\ history = ViewHistory(diagramData)
    /\ nextRef = 1
    /\ reading = {}
    /\ focusedGroupId = groupId
    /\ tracedNodeId = nodeId
    /\ appMode = "view"
    /\ lastOp = "init"
    /\ rendered = NotRendered
    /\ viewMode = "fixed"
    /\ layout = NotLaidOut
    /\ tick = NotTicked

\* the useMemo body runs on the current diagramData and selectors
Render ==
    /\ ~rendered.done
    /\ rendered' = [done |-> TRUE,
                    data |-> displayedData(history.present.diagramData,
                                           focusedGroupId, tracedNodeId)]
    /\ lastOp' = "displayedData"
    /\ UNCHANGED <<history, nextRef, reading, focusedGroupId, tracedNodeId, appMode,
                   viewMode, layout, tick>>

NextView == Render

\* the Diagram effect, once the displayed data is there: line 697 returns
\* on an empty node array, and buildHierarchy runs in 'fixed' mode
FixedLayout ==
    /\ rendered.done
    /\ ~layout.done
    /\ viewMode = "fixed"
    /\ layout' = FixedLayoutOf(rendered.data)
    /\ lastOp' = "buildHierarchy"
    /\ UNCHANGED <<history, nextRef, reading, focusedGroupId, tracedNodeId, appMode,
                   rendered, viewMode, tick>>

NextLayout == Render \/ FixedLayout

\* any selector pair, on small diagrams
InitSelectors ==
    \E nodes \in ViewNodeLists, links \in LinkLists(MaxViewLinks),
       groupId \in {null, "", "g1", "g9"}, nodeId \in {null, "", "A", "D"} :
        InitView(MkDiagram(nodes, links, ViewGroups), groupId, nodeId)

SpecView == InitSelectors /\ [][NextView]_vars

\* a traced node id, on diagrams of up to MaxLinks links
InitTrace ==
    \E nodes \in ViewNodeLists, links \in LinkLists(MaxLinks),
       nodeId \in {"A", "B", "C", "D"} :
        InitView(MkDiagram(nodes, links, ViewGroups), null, nodeId)

SpecTrace == InitTrace /\ [][NextView]_vars

\* member lists of the group g1: two members, members at both ends of the
\* diamond, one member, and none (a group as handleAddGroupSubmit makes it)
FocusMemberLists == { <<"B", "C">>, <<"A", "D">>, <<"D">>, <<>> }

\* a focused group id, on diagrams of up to MaxLinks links; with a node
\* array that misses a node, links and member lists name an absent id
InitFocus ==
    \E nodes \in ViewNodeLists, links \in LinkLists(MaxLinks),
       nodeIds \in FocusMemberLists :
        InitView(MkDiagram(nodes, links, << MkGroup("g1", "Group 1", nodeIds) >>),
                 "g1", null)

SpecFocus == InitFocus /\ [][NextView]_vars

\* node arrays handed to the layout: those of the views, a single node, none
LayoutNodeLists == ViewNodeLists \cup { << ViewNode("D") >>, <<>> }

\* no selector, on diagrams of up to MaxLayoutLinks links: the displayed
\* data is the diagram, and the layout runs on it
InitLayout ==
    \E nodes \in LayoutNodeLists, links \in LinkLists(MaxLayoutLinks) :
        InitView(MkDiagram(nodes, links, ViewGroups), null, null)

SpecLayout == InitLayout /\ [][NextLayout]_vars

\* horizontal coordinates the simulation may give, and the vertical
\* coordinate of a node that the layout has not pinned
TickXs == {0, 100}

FreeY == 80

\* one tick of the simulation that the effect starts after the layout: every
\* node gets a horizontal coordinate, its pinned vertical coordinate if it
\* has one, and may still be without a position; the group outlines follow
Tick ==
    /\ layout.done
    /\ Len(layout.nodes) > 0
    /\ ~tick.done
    /\ \E xs \in [1..Len(layout.nodes) -> TickXs],
          ps \in [1..Len(layout.nodes) -> BOOLEAN] :
          LET nodes == [i \in 1..Len(layout.nodes) |->
                          TickNode(layout.nodes[i], ps[i], xs[i],
                                   IF layout.nodes[i].fixed THEN layout.nodes[i].fy
                                                            ELSE FreeY)]
          IN tick' = [done |-> TRUE, nodes |-> nodes,
                      groupPathData |-> groupPathData(nodes, GroupsOf(rendered.data))]
    /\ lastOp' = "tick"
    /\ UNCHANGED <<history, nextRef, reading, focusedGroupId, tracedNodeId, appMode,
                   rendered, viewMode, layout>>

NextBoundary == Render \/ FixedLayout \/ Tick

\* link arrays of the diagrams whose groups are outlined
BoundaryLinkLists ==
    { <<>>,
      << MkLink("A", "B", ""), MkLink("B", "D", "") >>,
      << MkLink("A", "B", ""), MkLink("C", "D", "") >> }

\* a second group beside the one whose members vary
BoundaryGroups(nodeIds) ==
    << MkGroup("g1", "Group 1", nodeIds), MkGroup("g2", "Group 2", <<"A">>) >>

\* no selector or a focus on g1, on diagrams with two groups; member lists
\* may name a node that the node array does not have
InitBoundary ==
    \E nodes \in ViewNodeLists, links \in BoundaryLinkLists,
       nodeIds \in FocusMemberLists, groupId \in {null, "g1"} :
        InitView(MkDiagram(nodes, links, BoundaryGroups(nodeIds)), groupId, null)

SpecBoundary == InitBoundary /\ [][NextBoundary]_vars

-----------------------------------------------------------------------------
(* The whole application: the handlers of App behind the guards of the      *)
(* components that call them.  The panel's controls sit in a fieldset that  *)
(* is disabled by isEditingDisabled; the Diagram offers trace on every      *)
(* displayed node that is not a ghost, and the popover and the drop in edit *)
(* mode; the Header offers undo and redo in edit mode, and load always.     *)
(* Every state change re-renders, which recomputes displayedData.           *)

isEditingDisabled == appMode = "view" \/ Truthy(focusedGroupId) \/ Truthy(tracedNodeId)

PresentNodeIds == { history.present.diagramData.nodes[i].id :
                      i \in 1..Len(history.present.diagramData.nodes) }

PresentGroupIds == { GroupsOf(history.present.diagramData)[i].id :
                       i \in 1..Len(GroupsOf(history.present.diagramData)) }

\* the nodes the Diagram draws with handlers on them: node.filter(d => !d.isExternal)
ClickableNodeIds ==
    { rendered.data.nodes[i].id :
        i \in { j \in 1..Len(rendered.data.nodes) : ~rendered.data.nodes[j].isExternal } }

\* the ids and names the user's inputs are drawn from
RemovedNodeIds == {"G1"}

TracedNodeIds == {"G1", "L1"}

PopoverNodeIds == {"L1"}

MemberNodeIds == {"G1", "T1"}

\* pairs put into the link form: a new pair, a pair with one end, and the
\* reverse of a link of the initial diagram
FormLinkPairs == { <<"L1", "L2">>, <<"L1", "L1">>, <<"B1", "G1">> }

RemovedLinkPairs == { <<"G1", "B1">>, <<"L1", "L2">> }

PanelGroupIds == {"group1", "g9"}

DropTypes == {"LOAD"}

\* the modal opened on a listed type and saved as it stands
EditedComponentTypes == { initialComponentTypes[i] : i \in {Len(initialComponentTypes)} }

AddedComponentTypes == { MkComponentType("FUSE", "Fuse"), MkComponentType("LOAD", "Load again") }

\* the render that follows a state change
Rerender ==
    rendered' = [done |-> TRUE,
                 data |-> displayedData(history'.present.diagramData,
                                        focusedGroupId', tracedNodeId')]

\* setHistory through recordChange with the handler's updater applied
Record(newPresent, op) ==
    /\ rendered.done
    /\ nextRef <= MaxEdits
    /\ history' = recordChange(history, newPresent)
    /\ nextRef' = nextRef + 1
    /\ lastOp' = op
    /\ UNCHANGED <<reading, focusedGroupId, tracedNodeId, appMode, viewMode, layout, tick>>
    /\ Rerender

\* a handler that returns before it changes any state
Rejected(op) ==
    /\ rendered.done
    /\ lastOp' = op
    /\ UNCHANGED <<history, nextRef, reading, focusedGroupId, tracedNodeId, appMode,
                   viewMode, layout, tick>>
    /\ Rerender

handlePasswordSuccess ==
    /\ rendered.done
    /\ appMode = "view"
    /\ appMode' = "edit"
    /\ UNCHANGED <<history, nextRef, lastOp, reading, focusedGroupId, tracedNodeId,
                   viewMode, layout, tick>>
    /\ Rerender

handleExitEditMode ==
    /\ appMode = "edit"
    /\ appMode' = "view"
    /\ UNCHANGED <<history, nextRef, lastOp, reading, focusedGroupId, tracedNodeId,
                   viewMode, layout, tick>>
    /\ Rerender

\* ManualInputPanel: the remove button of a listed node
PanelRemoveNode(nodeId) ==
    /\ ~isEditingDisabled
    /\ nodeId \in PresentNodeIds
    /\ Record(removeNode(history.present, nodeId, nextRef), "removeNode")

\* a link form that looks for the pair in the direction entered only
handleAddLink_oneDirection(linkSource, linkTarget) ==
    LET links == history.present.diagramData.links
    IN /\ ~isEditingDisabled
       /\ Len(history.present.diagramData.nodes) >= 2
       /\ {linkSource, linkTarget} \subseteq PresentNodeIds
       /\ IF \/ linkSource = linkTarget
             \/ \E i \in 1..Len(links) :
                   links[i].source = linkSource /\ links[i].target = linkTarget
          THEN Rejected("handleAddLink")
          ELSE Record(addLink(history.present, MkLink(linkSource, linkTarget, ""), nextRef),
                      "addLink")

\* ManualInputPanel.handleAddLink, source and target chosen among the nodes
handleAddLink(linkSource, linkTarget) ==
    LET links == history.present.diagramData.links
    IN /\ ~isEditingDisabled
       /\ Len(history.present.diagramData.nodes) >= 2
       /\ {linkSource, linkTarget} \subseteq PresentNodeIds
       /\ IF \/ linkSource = linkTarget
             \/ \E i \in 1..Len(links) :
                   \/ links[i].source = linkSource /\ links[i].target = linkTarget
                   \/ links[i].source = linkTarget /\ links[i].target = linkSource
          THEN Rejected("handleAddLink")
          ELSE Record(addLink(history.present, MkLink(linkSource, linkTarget, ""), nextRef),
                      "addLink")

\* ManualInputPanel: the remove button of a listed link
PanelRemoveLink(sourceId, targetId) ==
    /\ ~isEditingDisabled
    /\ \E i \in 1..Len(history.present.diagramData.links) :
          /\ history.present.diagramData.links[i].source = sourceId
          /\ history.present.diagramData.links[i].target = targetId
    /\ Record(removeLink(history.present, sourceId, targetId, nextRef), "removeLink")

\* ManualInputPanel.handleAddGroupSubmit
handleAddGroupSubmit(groupId) ==
    /\ ~isEditingDisabled
    /\ IF groupId \in PresentGroupIds
       THEN Rejected("handleAddGroupSubmit")
       ELSE Record(handleAddGroup(history.present, MkGroup(groupId, "New group", <<>>), nextRef),
                   "handleAddGroup")

\* ManualInputPanel: the remove button of a listed group
PanelRemoveGroup(groupId) ==
    /\ ~isEditingDisabled
    /\ groupId \in PresentGroupIds
    /\ Record(handleRemoveGroup(history.present, groupId, nextRef), "handleRemoveGroup")

\* ManualInputPanel.handleAddNodeToGroup, the node chosen among unassignedNodes
handleAddNodeToGroup(groupId, nodeId) ==
    LET groups == GroupsOf(history.present.diagramData)
        g == FindGroup(history.present.diagramData, groupId)
        assignedNodeIds == UNION { Range(groups[i].nodeIds) : i \in 1..Len(groups) }
    IN /\ ~isEditingDisabled
       /\ g # 0
       /\ nodeId \in PresentNodeIds \ assignedNodeIds
       /\ Record(handleUpdateGroup(history.present, groupId,
                                   Append(groups[g].nodeIds, nodeId), nextRef),
                 "handleUpdateGroup")

\* ManualInputPanel.handleRemoveNodeFromGroup, on a listed member
handleRemoveNodeFromGroup(groupId, nodeId) ==
    LET groups == GroupsOf(history.present.diagramData)
        g == FindGroup(history.present.diagramData, groupId)
    IN /\ ~isEditingDisabled
       /\ g # 0
       /\ nodeId \in Range(groups[g].nodeIds)
       /\ Record(handleUpdateGroup(history.present, groupId,
                                   SelectSeq(groups[g].nodeIds, LAMBDA id : id # nodeId),
                                   nextRef),
                 "handleUpdateGroup")

\* the Focus button of a listed group
handleFocusGroup(groupId) ==
    /\ ~isEditingDisabled
    /\ groupId \in PresentGroupIds
    /\ tracedNodeId' = null
    /\ focusedGroupId' = groupId
    /\ UNCHANGED <<history, nextRef, lastOp, reading, appMode, viewMode, layout, tick>>
    /\ Rerender

\* the Exit Focus button of the banner
handleClearFocus ==
    /\ Truthy(focusedGroupId)
    /\ focusedGroupId' = null
    /\ UNCHANGED <<history, nextRef, lastOp, reading, tracedNodeId, appMode, viewMode, layout, tick>>
    /\ Rerender

\* a trace handler that leaves the focus selector as it is
handleTraceUpstream_keepsFocus(nodeId) ==
    /\ nodeId \in ClickableNodeIds
    /\ tracedNodeId' = nodeId
    /\ UNCHANGED <<history, nextRef, lastOp, reading, focusedGroupId, appMode,
                   viewMode, layout, tick>>
    /\ Rerender

\* Diagram: Trace Upstream Path in the context menu of a drawn node
handleTraceUpstream(nodeId) ==
    /\ nodeId \in ClickableNodeIds
    /\ focusedGroupId' = null
    /\ tracedNodeId' = nodeId
    /\ UNCHANGED <<history, nextRef, lastOp, reading, appMode, viewMode, layout, tick>>
    /\ Rerender

\* the Exit Trace button of the banner
handleClearTrace ==
    /\ Truthy(tracedNodeId)
    /\ tracedNodeId' = null
    /\ UNCHANGED <<history, nextRef, lastOp, reading, focusedGroupId, appMode, viewMode, layout, tick>>
    /\ Rerender

\* a drop whose updater runs on the displayed data instead of the state
DiagramDrop_onDisplayed(type) ==
    /\ appMode # "view"
    /\ Len(rendered.data.nodes) > 0
    /\ FindComponentType(history.present.componentTypes, type) # 0
    /\ Record(handleDropNode([history.present EXCEPT !.diagramData = rendered.data],
                             type, nextRef),
              "handleDropNode")

\* Diagram: a palette item dropped on the drawing
DiagramDrop(type) ==
    /\ appMode # "view"
    /\ Len(rendered.data.nodes) > 0
    /\ FindComponentType(history.present.componentTypes, type) # 0
    /\ Record(handleDropNode(history.present, type, nextRef), "handleDropNode")

\* Diagram: the popover of a drawn node, submitted
PopoverSubmit(sourceNodeId, type) ==
    /\ appMode = "edit"
    /\ sourceNodeId \in ClickableNodeIds
    /\ FindComponentType(history.present.componentTypes, type) # 0
    /\ Record(handleAddNodeAndLink(history.present, sourceNodeId,
                                    [type |-> type, label |-> "New", diameter |-> ""],
                                    nextRef),
              "handleAddNodeAndLink")

\* ComponentPalette: the modal submitted for a new type
PaletteAdd(newComponent) ==
    IF ComponentTypeExists(history.present.componentTypes, newComponent)
    THEN Rejected("handleAddComponentType")
    ELSE Record(handleAddComponentType(history.present, newComponent, nextRef),
                "handleAddComponentType")

\* ComponentPalette: the modal submitted for a listed type
PaletteEdit(editedComponent) ==
    /\ FindComponentType(history.present.componentTypes, editedComponent.type) # 0
    /\ Record(handleEditComponentType(history.present, editedComponent, nextRef),
              "handleEditComponentType")

\* Header: disabled={!canUndo || appMode === 'view'}
HeaderUndo ==
    /\ appMode # "view"
    /\ Len(history.past) > 0
    /\ history' = handleUndo(history)
    /\ lastOp' = "handleUndo"
    /\ UNCHANGED <<nextRef, reading, focusedGroupId, tracedNodeId, appMode,
                   viewMode, layout, tick>>
    /\ Rerender

\* Header: disabled={!canRedo || appMode === 'view'}
HeaderRedo ==
    /\ appMode # "view"
    /\ Len(history.future) > 0
    /\ history' = handleRedo(history)
    /\ lastOp' = "handleRedo"
    /\ UNCHANGED <<nextRef, reading, focusedGroupId, tracedNodeId, appMode,
                   viewMode, layout, tick>>
    /\ Rerender

Next ==
    \/ Render
    \/ handlePasswordSuccess
    \/ handleExitEditMode
    \/ \E nodeId \in RemovedNodeIds : PanelRemoveNode(nodeId)
    \/ \E p \in FormLinkPairs : handleAddLink(p[1], p[2])
    \/ \E p \in RemovedLinkPairs : PanelRemoveLink(p[1], p[2])
    \/ \E groupId \in PanelGroupIds : handleAddGroupSubmit(groupId)
    \/ \E groupId \in PanelGroupIds : PanelRemoveGroup(groupId)
    \/ \E groupId \in PanelGroupIds, nodeId \in MemberNodeIds :
          handleAddNodeToGroup(groupId, nodeId)
    \/ \E groupId \in PanelGroupIds, nodeId \in MemberNodeIds :
          handleRemoveNodeFromGroup(groupId, nodeId)
    \/ \E groupId \in PanelGroupIds : handleFocusGroup(groupId)
    \/ handleClearFocus
    \/ \E nodeId \in TracedNodeIds : handleTraceUpstream(nodeId)
    \/ handleClearTrace
    \/ \E type \in DropTypes : DiagramDrop(type)
    \/ \E nodeId \in PopoverNodeIds, type \in DropTypes : PopoverSubmit(nodeId, type)
    \/ \E c \in AddedComponentTypes : PaletteAdd(c)
    \/ \E c \in EditedComponentTypes : PaletteEdit(c)
    \/ HeaderUndo
    \/ HeaderRedo

Spec == Init /\ [][Next]_vars

\* Header: the Load button, enabled in both modes
HeaderLoad(f) ==
    /\ rendered.done
    /\ Cardinality(reading) < MaxReading
    /\ reading' = reading \cup {f}
    /\ lastOp' = "handleLoadDiagram"
    /\ UNCHANGED <<history, nextRef, focusedGroupId, tracedNodeId, appMode,
                   viewMode, layout, tick>>
    /\ Rerender

\* reader.onload of a read in flight, then the render
HeaderOnload(f) ==
    /\ f \in reading
    /\ f.parses => nextRef <= MaxEdits
    /\ history' = onload(history, f, nextRef)
    /\ nextRef' = IF f.parses THEN nextRef + 1 ELSE nextRef
    /\ reading' = reading \ {f}
    /\ lastOp' = "onload"
    /\ UNCHANGED <<focusedGroupId, tracedNodeId, appMode, viewMode, layout, tick>>
    /\ Rerender

SessionFiles == {FileLegacy, FileGarbage}

\* the application with the file load, on fewer edits
NextSession ==
    \/ Render
    \/ handlePasswordSuccess
    \/ handleExitEditMode
    \/ \E groupId \in {"g9"} : handleAddGroupSubmit(groupId)
    \/ \E groupId \in PanelGroupIds : handleFocusGroup(groupId)
    \/ handleClearFocus
    \/ \E nodeId \in TracedNodeIds : handleTraceUpstream(nodeId)
    \/ handleClearTrace
    \/ \E type \in DropTypes : DiagramDrop(type)
    \/ HeaderUndo
    \/ HeaderRedo
    \/ \E f \in SessionFiles : HeaderLoad(f)
    \/ \E f \in SessionFiles : HeaderOnload(f)

SpecSession == Init /\ [][NextSession]_vars

-----------------------------------------------------------------------------
(* Properties of the edit history, checked under SpecHistory *)

\* C1: a recordChange whose updater returns a snapshot other than the
\* present appends the old present to past, makes the candidate the
\* present and empties future, whatever future held.
C1_AcceptedChange ==
    [][\A m \in Mutators :
          (Apply(m) /\ Updater(m, history.present, nextRef).ref # history.present.ref)
             => /\ history'.past = history.past \o <<history.present>>
                /\ history'.present = Updater(m, history.present, nextRef)
                /\ history'.future = <<>>]_vars

\* recordChange has acted on a history whose future was not empty: object 1
\* was recorded and undone, and recording object 2 dropped it.
C1_Witness ==
    /\ lastOp = "recordChange"
    /\ Len(history.past) = 1
    /\ history.past[1].ref = 0
    /\ history.present.ref = 2
    /\ history.future = <<>>

\* C2: a recordChange whose updater returns its input leaves past, present
\* and future as they were.
C2_IdentityIsNoOp ==
    [][\A m \in Mutators :
          (Apply(m) /\ Updater(m, history.present, nextRef).ref = history.present.ref)
             => history' = history]_vars

\* recordChange has returned with a future still in place: only the
\* identity updater leaves one.
C2_Witness ==
    /\ lastOp = "recordChange"
    /\ history.future # <<>>
    /\ history.past # <<>>

\* C3: undo changes nothing when past is empty; otherwise the last element
\* of past becomes the present, past loses it, and the outgoing present is
\* put in front of future.
C3_Undo ==
    [][lastOp' = "handleUndo" =>
          IF history.past = <<>>
          THEN history' = history
          ELSE /\ history'.present = history.past[Len(history.past)]
               /\ history'.past = SubSeq(history.past, 1, Len(history.past) - 1)
               /\ history'.future = <<history.present>> \o history.future]_vars

C3_Witness ==
    /\ lastOp = "handleUndo"
    /\ Len(history.future) >= 2
    /\ history.past # <<>>

\* C4: redo changes nothing when future is empty; otherwise the first
\* element of future becomes the present, future loses it, and the outgoing
\* present is appended to past.
C4_Redo ==
    [][lastOp' = "handleRedo" =>
          IF history.future = <<>>
          THEN history' = history
          ELSE /\ history'.present = history.future[1]
               /\ history'.future = SubSeq(history.future, 2, Len(history.future))
               /\ history'.past = history.past \o <<history.present>>]_vars

C4_Witness ==
    /\ lastOp = "handleRedo"
    /\ history.future # <<>>
    /\ Len(history.past) >= 2

RECURSIVE UndoTimes(_, _)
UndoTimes(h, n) == IF n = 0 THEN h ELSE UndoTimes(handleUndo(h), n - 1)

RECURSIVE RedoTimes(_, _)
RedoTimes(h, n) == IF n = 0 THEN h ELSE RedoTimes(handleRedo(h), n - 1)

\* C5: in every reachable history, N undos followed by N redos, for any N
\* up to the length of past, give back the same past, present and future.
C5_UndoRedoRoundTrip ==
    \A n \in 0..Len(history.past) :
        RedoTimes(UndoTimes(history, n), n) = history

C5_Witness ==
    /\ Len(history.past) >= 2
    /\ history.future # <<>>

\* C6: delivering a file in the current format makes its snapshot the
\* present and empties past and future; delivering a legacy diagram (nodes
\* at the top level, no registry) makes that diagram the present together
\* with initialComponentTypes, past and future again empty.
C6_LoadResets ==
    [][\A f \in reading :
          (ReaderOnload(f) /\ f.parses) =>
             /\ (f.hasDiagramData /\ f.dNodes.isArray /\ f.dLinks.isArray
                   /\ f.componentTypes.isArray)
                  => /\ history'.past = <<>> /\ history'.future = <<>>
                     /\ history'.present.diagramData.nodes = f.dNodes.items
                     /\ history'.present.diagramData.links = f.dLinks.items
                     /\ GroupsOf(history'.present.diagramData) = f.dGroups.items
                     /\ history'.present.componentTypes = f.componentTypes.items
             /\ (~f.hasDiagramData /\ ~f.componentTypes.isArray
                   /\ f.nodes.isArray /\ f.links.isArray)
                  => /\ history'.past = <<>> /\ history'.future = <<>>
                     /\ history'.present.diagramData.nodes = f.nodes.items
                     /\ history'.present.diagramData.links = f.links.items
                     /\ GroupsOf(history'.present.diagramData) = f.groups.items
                     /\ history'.present.componentTypes = initialComponentTypes]_vars

\* a legacy file has been delivered over a history that had already
\* allocated snapshots
C6_Witness ==
    /\ lastOp = "onload"
    /\ history.present.ref >= 2
    /\ history.present.diagramData.nodes = FileLegacy.nodes.items
    /\ history.present.componentTypes = initialComponentTypes
    /\ history.past = <<>>

-----------------------------------------------------------------------------
(* Properties of displayedData *)

NodeIdsOf(nodes) == { nodes[i].id : i \in 1..Len(nodes) }

NoRepeats(seq) == \A i, j \in 1..Len(seq) : i # j => seq[i] # seq[j]

\* C7: a set traced node id selects the trace result, also when a focused
\* group id is set; a focused group id alone selects the focus result; with
\* neither set the result is the diagram itself.  "Set" is what the code
\* tests: neither null nor the empty string.
C7_Precedence ==
    rendered.done =>
        LET d == history.present.diagramData
            traceSet == tracedNodeId # null /\ tracedNodeId # ""
            focusSet == focusedGroupId # null /\ focusedGroupId # ""
        IN /\ traceSet => rendered.data = TraceView(d, tracedNodeId)
           /\ (~traceSet /\ focusSet) => rendered.data = FocusView(d, focusedGroupId)
           /\ (~traceSet /\ ~focusSet) => rendered.data = d

\* both selectors are set, their two results differ, and the trace result
\* was rendered
C7_Witness ==
    /\ rendered.done
    /\ tracedNodeId = "D"
    /\ focusedGroupId = "g1"
    /\ TraceView(history.present.diagramData, "D") # FocusView(history.present.diagramData, "g1")
    /\ Len(rendered.data.links) = 2
    /\ rendered.data.groups = <<>>

\* the ids from which some id of S is reached along links, source to target
\* (S included): the least set closed under "has a link into the set"
RECURSIVE Upstream(_, _)
Upstream(links, S) ==
    LET T == S \cup { links[i].source : i \in { j \in 1..Len(links) : links[j].target \in S } }
    IN IF T = S THEN S ELSE Upstream(links, T)

ChainLinks == << MkLink("A", "B", ""), MkLink("B", "C", ""), MkLink("C", "D", "") >>

DiamondLinks ==
    << MkLink("A", "B", ""), MkLink("A", "C", ""), MkLink("B", "D", ""), MkLink("C", "D", "") >>

FullNodes == <<ViewNode("A"), ViewNode("B"), ViewNode("C"), ViewNode("D")>>

\* C8: for a traced node that exists, the nodes of the trace result are the
\* diagram's nodes from which the traced node is reachable (itself
\* included), each once, and the result has no groups; on the chain
\* A -> B -> C -> D the trace of D has the four nodes, the trace of A has
\* node A only and no links.
C8_TraceNodes ==
    (rendered.done /\ tracedNodeId \in NodeIdsOf(history.present.diagramData.nodes)) =>
        LET d == history.present.diagramData
            out == rendered.data
            up == Upstream(d.links, {tracedNodeId})
        IN /\ NodeIdsOf(out.nodes) = { id \in NodeIdsOf(d.nodes) : id \in up }
           /\ tracedNodeId \in NodeIdsOf(out.nodes)
           /\ Cardinality(NodeIdsOf(out.nodes)) = Len(out.nodes)
           /\ Range(out.nodes) \subseteq Range(d.nodes)
           /\ out.groups = <<>>
           /\ (d.links = ChainLinks /\ d.nodes = FullNodes /\ tracedNodeId = "D")
                 => NodeIdsOf(out.nodes) = {"A", "B", "C", "D"}
           /\ (d.links = ChainLinks /\ d.nodes = FullNodes /\ tracedNodeId = "A")
                 => (NodeIdsOf(out.nodes) = {"A"} /\ out.links = <<>>)

\* the chain traced from D
C8_Witness ==
    /\ rendered.done
    /\ history.present.diagramData.links = ChainLinks
    /\ history.present.diagramData.nodes = FullNodes
    /\ history.present.diagramData.groups # <<>>
    /\ tracedNodeId = "D"
    /\ Len(rendered.data.nodes) = 4

\* the ids within k links upstream of S
RECURSIVE UpstreamWithin(_, _, _)
UpstreamWithin(links, S, k) ==
    IF k = 0 THEN S
    ELSE UpstreamWithin(links,
            S \cup { links[i].source : i \in { j \in 1..Len(links) : links[j].target \in S } },
            k - 1)

\* the least number of links from id down to nodeId
UpstreamDistance(links, nodeId, id) ==
    CHOOSE k \in 0..Len(links) :
        /\ id \in UpstreamWithin(links, {nodeId}, k)
        /\ \A k2 \in 0..(k - 1) : id \notin UpstreamWithin(links, {nodeId}, k2)

\* C9: the links of the trace result are the links by which an id was first
\* discovered: they are links of the diagram, none twice; every visited id
\* other than the traced one is the source of exactly one of them and the
\* traced id of none, so they number one less than the visited ids; each
\* leads from an id one step further upstream to an id one step nearer; and
\* of parallel links the first declared is the one kept.
C9_TraceLinks ==
    rendered.done =>
        LET d == history.present.diagramData
            out == rendered.data.links
            up == Upstream(d.links, {tracedNodeId})
        IN /\ NoRepeats(out)
           /\ Range(out) \subseteq Range(d.links)
           /\ \A id \in up \ {tracedNodeId} :
                 Cardinality({ i \in 1..Len(out) : out[i].source = id }) = 1
           /\ \A i \in 1..Len(out) : out[i].source \in up \ {tracedNodeId}
           /\ Len(out) = Cardinality(up) - 1
           /\ \A i \in 1..Len(out) :
                 UpstreamDistance(d.links, tracedNodeId, out[i].source)
                    = UpstreamDistance(d.links, tracedNodeId, out[i].target) + 1
           /\ \A i \in 1..Len(out) :
                 out[i] = d.links[FindLink(d.links, out[i].source, out[i].target)]

\* two paths converge on the traced node and a parallel link is present
C9_Witness ==
    /\ rendered.done
    /\ tracedNodeId = "D"
    /\ Range(DiamondLinks) \subseteq Range(history.present.diagramData.links)
    /\ Len(rendered.data.links) = 3

\* C10: on the diamond A -> B, A -> C, B -> D, C -> D the trace of D has
\* nodes A, B, C, D, with D once, and all four links.
C10_DiamondAllLinks ==
    (/\ rendered.done
     /\ history.present.diagramData.nodes = FullNodes
     /\ history.present.diagramData.links = DiamondLinks
     /\ tracedNodeId = "D")
      => /\ NodeIdsOf(rendered.data.nodes) = {"A", "B", "C", "D"}
         /\ Cardinality({ i \in 1..Len(rendered.data.nodes) : rendered.data.nodes[i].id = "D" }) = 1
         /\ Range(rendered.data.links) = Range(DiamondLinks)

-----------------------------------------------------------------------------
(* Properties of the views on diagrams with unresolved ids, checked under   *)
(* SpecView, and of the focus view, checked under SpecFocus                 *)

EmptyView(d) == d.nodes = <<>> /\ d.links = <<>> /\ GroupsOf(d) = <<>>

\* C11: a trace of an id that is not a node of the diagram, and a focus on
\* an id that is not a group of the diagram, give the empty result: no
\* nodes, no links, no groups.
C11_UnknownSelectorEmpty ==
    LET d == history.present.diagramData
    IN rendered.done =>
        /\ (Truthy(tracedNodeId) /\ tracedNodeId \notin NodeIdsOf(d.nodes))
              => EmptyView(rendered.data)
        /\ (~Truthy(tracedNodeId) /\ Truthy(focusedGroupId)
               /\ FindGroup(d, focusedGroupId) = 0)
              => EmptyView(rendered.data)

\* the non-member endpoint of a link with exactly one endpoint in S
OutsideEnd(link, S) == IF link.source \in S THEN link.target ELSE link.source

\* the distinct non-member endpoints of the boundary links, in scan order
RECURSIVE GhostIds(_, _, _, _)
GhostIds(links, S, i, acc) ==
    IF i > Len(links) THEN acc
    ELSE LET l == links[i]
         IN IF (l.source \in S) # (l.target \in S) /\ OutsideEnd(l, S) \notin Range(acc)
            THEN GhostIds(links, S, i + 1, Append(acc, OutsideEnd(l, S)))
            ELSE GhostIds(links, S, i + 1, acc)

IsInternal(l, S) == l.source \in S /\ l.target \in S

IsBoundary(l, S) == (l.source \in S) # (l.target \in S)

MarkBoundary(links) == [i \in 1..Len(links) |-> [links[i] EXCEPT !.isBoundary = TRUE]]

\* C12: the focus on an existing group with member set S has as nodes the
\* diagram nodes with id in S, in diagram order, then one ghost (isExternal)
\* per distinct non-member endpoint of a boundary link, in scan order; as
\* links the internal links then the boundary links; as groups the focused
\* group alone.  On the diamond with S = {B, C} the ghosts are A and D and
\* no link is internal.
C12_FocusResult ==
    LET d == history.present.diagramData
        g == FindGroup(d, focusedGroupId)
        S == Range(GroupsOf(d)[g].nodeIds)
        members == SelectSeq(d.nodes, LAMBDA n : n.id \in S)
        ghostIds == GhostIds(d.links, S, 1, <<>>)
        r == rendered.data
    IN (rendered.done /\ ~Truthy(tracedNodeId) /\ Truthy(focusedGroupId) /\ g # 0) =>
        /\ Len(r.nodes) = Len(members) + Len(ghostIds)
        /\ SubSeq(r.nodes, 1, Len(members)) = members
        /\ \A k \in 1..Len(ghostIds) :
              /\ r.nodes[Len(members) + k].id = ghostIds[k]
              /\ r.nodes[Len(members) + k].isExternal
        /\ r.links = SelectSeq(d.links, LAMBDA l : IsInternal(l, S))
                       \o MarkBoundary(SelectSeq(d.links, LAMBDA l : IsBoundary(l, S)))
        /\ GroupsOf(r) = << GroupsOf(d)[g] >>
        /\ (d.nodes = FullNodes /\ d.links = DiamondLinks /\ S = {"B", "C"})
              => /\ [k \in 1..2 |-> r.nodes[2 + k].id] = <<"A", "D">>
                 /\ \A i \in 1..Len(r.links) : r.links[i].isBoundary

\* C13: the focus keeps a diagram link unmarked when both endpoints are in
\* S, keeps a copy marked isBoundary when exactly one is, and omits it when
\* neither is; the result has as many links as the diagram has links with
\* an endpoint in S, and none is both internal and boundary.
C13_LinkClasses ==
    LET d == history.present.diagramData
        g == FindGroup(d, focusedGroupId)
        S == Range(GroupsOf(d)[g].nodeIds)
        r == rendered.data
        touching == { i \in 1..Len(d.links) : d.links[i].source \in S \/ d.links[i].target \in S }
    IN (rendered.done /\ ~Truthy(tracedNodeId) /\ Truthy(focusedGroupId) /\ g # 0) =>
        /\ Len(r.links) = Cardinality(touching)
        /\ \A i \in 1..Len(r.links) :
              /\ r.links[i].isBoundary <=> IsBoundary(r.links[i], S)
              /\ ~r.links[i].isBoundary <=> IsInternal(r.links[i], S)
        /\ \A i \in 1..Len(d.links) :
              LET l == d.links[i]
                  copies == { k \in 1..Len(r.links) :
                                [r.links[k] EXCEPT !.isBoundary = FALSE] = l }
              IN /\ IsInternal(l, S) =>
                      /\ Cardinality(copies) = 1
                      /\ \A k \in copies : ~r.links[k].isBoundary
                 /\ IsBoundary(l, S) =>
                      /\ Cardinality(copies) = 1
                      /\ \A k \in copies : r.links[k].isBoundary
                 /\ (~IsInternal(l, S) /\ ~IsBoundary(l, S)) => copies = {}

\* a focus whose diagram has an internal link, a boundary link and a link
\* outside the group
C13_Witness ==
    LET d == history.present.diagramData
        S == Range(GroupsOf(d)[1].nodeIds)
    IN /\ rendered.done
       /\ focusedGroupId = "g1"
       /\ \E i, j, k \in 1..Len(d.links) :
             /\ IsInternal(d.links[i], S)
             /\ IsBoundary(d.links[j], S)
             /\ ~IsInternal(d.links[k], S) /\ ~IsBoundary(d.links[k], S)
       /\ Len(rendered.data.links) = 2

\* C14: every link of a trace or focus result has its source and its target
\* among the nodes of that result, also when links or groups of the diagram
\* name ids that are not nodes.
C14_LinksResolve ==
    (rendered.done /\ (Truthy(tracedNodeId) \/ Truthy(focusedGroupId))) =>
        \A i \in 1..Len(rendered.data.links) :
            /\ rendered.data.links[i].source \in NodeIdsOf(rendered.data.nodes)
            /\ rendered.data.links[i].target \in NodeIdsOf(rendered.data.nodes)

-----------------------------------------------------------------------------
(* Properties of the fixed layout, checked under SpecLayout *)

\* how often id n stands in a children array of the tree
ChildCount(h, n) ==
    LET slots == { s \in (DOMAIN h.children) \X (1..Len(h.q)) :
                      s[2] <= Len(h.children[s[1]]) /\ h.children[s[1]][s[2]] = n }
    IN Cardinality(slots)

\* the links between input nodes, as pairs
Edges(nodes, links) ==
    { <<links[i].source, links[i].target>> : i \in
        { j \in 1..Len(links) : /\ links[j].source \in NodeIdsOf(nodes)
                                /\ links[j].target \in NodeIdsOf(nodes) } }

\* the ids reached from the ids S along at most k links
RECURSIVE Within(_, _, _)
Within(E, S, k) ==
    IF k = 0 THEN S
    ELSE Within(E, S \cup { e[2] : e \in { x \in E : x[1] \in S } }, k - 1)

\* the least number of links on a path from id r to id n (n is reachable)
Distance(E, r, n) ==
    CHOOSE k \in 0..Cardinality(E) :
        /\ n \in Within(E, {r}, k)
        /\ \A j \in 0..(k - 1) : n \notin Within(E, {r}, j)

HasCycle(nodes, links) ==
    LET E == Edges(nodes, links)
    IN \E n \in NodeIdsOf(nodes) :
          n \in Within(E, { e[2] : e \in { x \in E : x[1] = n } }, Cardinality(E))

\* C15: after the layout every node of the input has a pinned coordinate,
\* whatever the node and link set (several roots, cycles, self-loops, links
\* whose source is not an input node).
C15_EveryNodePinned ==
    layout.done =>
        /\ Len(layout.nodes) = Len(rendered.data.nodes)
        /\ \A i \in 1..Len(layout.nodes) : layout.nodes[i].fixed

\* C16: the layout of an input with a directed cycle ends, and in its tree
\* every input node that is not a tree root has exactly one tree-parent and
\* is placed exactly once.
C16_CycleOneParent ==
    LET h == layout.hierarchy
        ds == layout.descendants
    IN (layout.done /\ HasCycle(rendered.data.nodes, rendered.data.links)) =>
        \A n \in NodeIdsOf(rendered.data.nodes) :
            /\ n \in Range(h.rootNodes) => ChildCount(h, n) = 0
            /\ n \notin Range(h.rootNodes) => ChildCount(h, n) = 1
            /\ Cardinality({ i \in 1..Len(ds) : ~ds[i].virtual /\ ds[i].id = n }) = 1

\* the tree root above the i-th descendant
RECURSIVE TreeRootOf(_, _)
TreeRootOf(ds, i) ==
    IF ds[i].depth = 0 \/ ds[i].parent = DUMMY_ROOT THEN ds[i].id
    ELSE TreeRootOf(ds, CHOOSE j \in 1..Len(ds) : ~ds[j].virtual /\ ds[j].id = ds[i].parent)

\* C17: with more than one root candidate the virtual root gets no
\* coordinate and is not among the output nodes, and the tree depth of every
\* real node, the virtual root not counted, is the least number of links
\* from the root of its tree to it.
C17_VirtualRootAndDepth ==
    LET h == layout.hierarchy
        ds == layout.descendants
        E == Edges(rendered.data.nodes, rendered.data.links)
    IN (layout.done /\ Len(h.rootNodes) > 1) =>
        /\ h.virtual /\ ds[1].virtual /\ ds[1].id = DUMMY_ROOT
        /\ \A i \in 2..Len(ds) : ~ds[i].virtual
        /\ NodeIdsOf(layout.nodes) = NodeIdsOf(rendered.data.nodes)
        /\ DUMMY_ROOT \notin NodeIdsOf(layout.nodes)
        /\ Cardinality({ i \in 1..Len(layout.nodes) : layout.nodes[i].fixed }) = Len(ds) - 1
        /\ \A i \in 2..Len(ds) :
              /\ layout.nodes[FindNode(layout.nodes, ds[i].id)].fixed
              /\ ds[i].depth - 1 = Distance(E, TreeRootOf(ds, i), ds[i].id)

\* several trees, and a child of a root that a longer path from the same
\* root also reaches, through a placed node that is not its tree-parent
C17_Witness ==
    LET ds == layout.descendants
    IN /\ layout.done
       /\ Len(layout.hierarchy.rootNodes) > 1
       /\ \E i \in 2..Len(ds) :
             /\ ds[i].depth = 2
             /\ \E j \in 1..Len(rendered.data.links) :
                   /\ rendered.data.links[j].target = ds[i].id
                   /\ rendered.data.links[j].source # ds[i].parent
                   /\ rendered.data.links[j].source # ds[i].id
                   /\ rendered.data.links[j].source \in Range(layout.hierarchy.q)
                   /\ rendered.data.links[j].source \notin Range(layout.hierarchy.rootNodes)

\* the input nodes that are never a link target, in input order
NeverTarget(nodes, links) ==
    LET ts == { links[i].target : i \in 1..Len(links) }
        free == SelectSeq(nodes, LAMBDA n : n.id \notin ts)
    IN [k \in 1..Len(free) |-> free[k].id]

\* C18: the roots are the input nodes whose id is never a link target, in
\* input order; exactly when there is none and the input is not empty, the
\* single root is the first input node.
C18_RootSelection ==
    LET nodes == rendered.data.nodes
        cands == NeverTarget(nodes, rendered.data.links)
        roots == layout.hierarchy.rootNodes
    IN (layout.done /\ Len(nodes) > 0) =>
        /\ cands # <<>> => roots = cands
        /\ cands = <<>> => roots = << nodes[1].id >>

\* an input of three nodes, each of them a target: the first node is the root
C18_Witness ==
    /\ layout.done
    /\ Len(rendered.data.nodes) = 3
    /\ NeverTarget(rendered.data.nodes, rendered.data.links) = <<>>
    /\ layout.hierarchy.rootNodes = << rendered.data.nodes[1].id >>
    /\ Len(layout.descendants) = 3

\* the targets of the links leaving id, in link order
Forward(links, id) ==
    LET out == SelectSeq(links, LAMBDA l : l.source = id)
    IN [k \in 1..Len(out) |-> out[k].target]

\* the ids of seq that are input nodes outside `seen`, each at its first place
RECURSIVE Discovered(_, _, _, _)
Discovered(seq, ids, seen, i) ==
    IF i > Len(seq) THEN <<>>
    ELSE IF seq[i] \in seen THEN Discovered(seq, ids, seen, i + 1)
    ELSE IF seq[i] \in ids
    THEN <<seq[i]>> \o Discovered(seq, ids, seen \cup {seq[i]}, i + 1)
    ELSE Discovered(seq, ids, seen \cup {seq[i]}, i + 1)

\* the queue and the children that a first-discoverer-wins breadth-first
\* build gives from the k-th queue entry on, as the queue alone
RECURSIVE QueueFrom(_, _, _, _, _)
QueueFrom(links, ids, q, seen, k) ==
    IF k > Len(q) THEN q
    ELSE LET found == Discovered(Forward(links, q[k]), ids, seen, 1)
         IN QueueFrom(links, ids, q \o found,
                      seen \cup Range(Forward(links, q[k])), k + 1)

RECURSIVE SeenBefore(_, _, _, _)
SeenBefore(links, q, roots, k) ==
    IF k = 1 THEN Range(roots)
    ELSE SeenBefore(links, q, roots, k - 1) \cup Range(Forward(links, q[k - 1]))

\* C19: the roots are queued in root order; each dequeued node takes as
\* tree-children, in link order, its forward neighbours not yet visited, and
\* they are queued; a link to a visited node adds no parent.  So no node is
\* a child of two parents or a child twice, no root is a child, and a child
\* is always queued after its parent.
C19_FirstDiscovererWins ==
    LET h == layout.hierarchy
        nodes == rendered.data.nodes
        links == rendered.data.links
        ids == NodeIdsOf(nodes)
    IN (layout.done /\ ~h.isNull) =>
        /\ h.q = QueueFrom(links, ids, h.rootNodes, Range(h.rootNodes), 1)
        /\ \A k \in 1..Len(h.q) :
              h.children[h.q[k]] =
                  Discovered(Forward(links, h.q[k]), ids,
                             SeenBefore(links, h.q, h.rootNodes, k), 1)
        /\ \A n \in ids \ Range(h.q) : h.children[n] = <<>>
        /\ \A n \in ids : ChildCount(h, n) <= 1
        /\ \A n \in Range(h.rootNodes) : ChildCount(h, n) = 0
        /\ \A i, j \in 1..Len(h.q) : i # j => h.q[i] # h.q[j]
        /\ \A i, j \in 1..Len(h.q) :
              h.q[j] \in Range(h.children[h.q[i]]) => i < j

\* a node with links into it from two placed nodes: it is the child of the
\* one queued first, and of no other
C19_Witness ==
    LET h == layout.hierarchy
        links == rendered.data.links
    IN /\ layout.done
       /\ ~h.isNull
       /\ \E i, j \in 1..Len(links) : \E a, b \in 1..Len(h.q) :
             /\ links[i].target = links[j].target
             /\ links[i].source = h.q[a]
             /\ links[j].source = h.q[b]
             /\ a < b
             /\ links[i].target \in Range(h.children[h.q[a]])
             /\ links[i].target \notin Range(h.children[h.q[b]])
             /\ ChildCount(h, links[i].target) = 1

\* C20: the vertical coordinate of a placed node is 160 times its tree depth,
\* moved so that the least vertical coordinate of the output nodes is 0,
\* with one root and with several.
C20_VerticalFromZero ==
    LET ds == layout.descendants
        placed == { i \in 1..Len(layout.nodes) : layout.nodes[i].fixed }
        top == CHOOSE d \in { ds[i].depth : i \in { j \in 1..Len(ds) : ~ds[j].virtual } } :
                  \A i \in 1..Len(ds) : ~ds[i].virtual => d <= ds[i].depth
    IN (layout.done /\ placed # {}) =>
        /\ \E i \in placed : layout.nodes[i].fy = 0
        /\ \A i \in placed : layout.nodes[i].fy >= 0
        /\ \A i \in 1..Len(ds) :
              ~ds[i].virtual =>
                 layout.nodes[FindNode(layout.nodes, ds[i].id)].fy
                    = (ds[i].depth - top) * verticalSpacing

-----------------------------------------------------------------------------
(* Properties of the load and of the running application *)

\* the content is not parseable, or has a nodes array in neither shape
InvalidFile(f) ==
    \/ ~f.parses
    \/ ~(f.hasDiagramData /\ f.dNodes.isArray) /\ ~f.nodes.isArray

\* C24: the delivery of a file that does not parse, or that has no nodes
\* array in the current and in the legacy shape, leaves past, present and
\* future as they were.
C24_InvalidLoadKeepsHistory ==
    [][\A f \in reading :
          (ReaderOnload(f) /\ InvalidFile(f)) => history' = history]_vars

\* a file that parses but is rejected has been delivered over a history
\* with undo and redo entries: the identity taken for its state is in no
\* snapshot
C24_Witness ==
    LET refs == { history.past[i].ref : i \in 1..Len(history.past) }
                  \cup { history.present.ref }
                  \cup { history.future[i].ref : i \in 1..Len(history.future) }
    IN /\ lastOp = "onload"
       /\ history.past # <<>>
       /\ history.future # <<>>
       /\ (nextRef - 1) \notin refs

\* C26: at most one of the two selectors is set, whatever sequence of focus,
\* clear-focus, trace and clear-trace is interleaved with edits, undo, redo
\* and file loads.
C26_SelectorsExclusive == ~(Truthy(focusedGroupId) /\ Truthy(tracedNodeId))

\* a trace is on after an edit was made and undone
C26_Witness ==
    /\ Truthy(tracedNodeId)
    /\ history.past # <<>>
    /\ history.future # <<>>
    /\ rendered.data = TraceView(history.present.diagramData, tracedNodeId)

Snapshots ==
    Range(history.past) \cup {history.present} \cup Range(history.future)

NoSynthesizedFlags(state) ==
    /\ \A i \in 1..Len(state.diagramData.nodes) : ~state.diagramData.nodes[i].isExternal
    /\ \A i \in 1..Len(state.diagramData.links) : ~state.diagramData.links[i].isBoundary

\* C22: no snapshot of the history (past, present, future) has a node with
\* isExternal set or a link with isBoundary set, in any run of edits, focus
\* and trace changes, undo and redo; and a step that derives a view (the
\* first render, or a change of a selector) leaves the history as it was.
C22_FlagsNotPersisted ==
    /\ [](\A state \in Snapshots : NoSynthesizedFlags(state))
    /\ [][(\/ focusedGroupId' # focusedGroupId
           \/ tracedNodeId' # tracedNodeId
           \/ rendered.done' # rendered.done) => history' = history]_vars

\* a focus view with a ghost node and a boundary link is displayed over a
\* history that holds a dropped node and an undone edit
C22_Witness ==
    /\ Truthy(focusedGroupId)
    /\ \E i \in 1..Len(rendered.data.nodes) : rendered.data.nodes[i].isExternal
    /\ \E i \in 1..Len(rendered.data.links) : rendered.data.links[i].isBoundary
    /\ \E i \in 1..Len(history.present.diagramData.nodes) :
          history.present.diagramData.nodes[i].id = "LO1"
    /\ history.future # <<>>

\* C23: the node ids of every snapshot are pairwise distinct, under drops,
\* add-node-and-link, node removals, link and group edits, undo and redo;
\* a node that is added gets an id that the present does not use.
C23_NodeIdsUnique ==
    \A state \in Snapshots :
       NoRepeats([i \in 1..Len(state.diagramData.nodes) |-> state.diagramData.nodes[i].id])

\* two nodes of the same type were added one after the other
C23_Witness ==
    /\ {"LO1", "LO2"} \subseteq PresentNodeIds
    /\ Len(history.present.diagramData.nodes) = Len(initialData.nodes) + 2
    /\ Len(history.past) = 2

NoDanglingReferences(d) ==
    LET ids == { d.nodes[i].id : i \in 1..Len(d.nodes) }
    IN /\ \A i \in 1..Len(d.links) : d.links[i].source \in ids /\ d.links[i].target \in ids
       /\ \A i \in 1..Len(GroupsOf(d)) : Range(GroupsOf(d)[i].nodeIds) \subseteq ids

Mentions(d, nodeId) ==
    \/ \E i \in 1..Len(d.nodes) : d.nodes[i].id = nodeId
    \/ \E i \in 1..Len(d.links) : d.links[i].source = nodeId \/ d.links[i].target = nodeId
    \/ \E i \in 1..Len(GroupsOf(d)) : nodeId \in Range(GroupsOf(d)[i].nodeIds)

\* C27: from the initial diagram, in which every link end and every group
\* member is a node, editing through the panel and the drawing (links added
\* between existing nodes, group members chosen among existing nodes, the
\* popover opened on an existing node), undo and redo keep every link end
\* and every group member of every snapshot a node of that snapshot; and the
\* removal of a node leaves no link with that end and no group with that
\* member.
C27_ReferentialIntegrity ==
    /\ [](\A state \in Snapshots : NoDanglingReferences(state.diagramData))
    /\ [][\A nodeId \in RemovedNodeIds :
             PanelRemoveNode(nodeId) => ~Mentions(history'.present.diagramData, nodeId)]_vars

\* a node that was a link end and a group member has just been removed
C27_Witness ==
    /\ lastOp = "removeNode"
    /\ Len(history.past) > 0
    /\ LET before == history.past[Len(history.past)].diagramData
           gone == NodeIdsOf(before.nodes) \ PresentNodeIds
       IN \E nodeId \in gone :
             /\ \E i \in 1..Len(before.links) : before.links[i].source = nodeId
             /\ \E i \in 1..Len(GroupsOf(before)) : nodeId \in Range(GroupsOf(before)[i].nodeIds)
             /\ Len(history.present.diagramData.links) > 0
             /\ Len(GroupsOf(history.present.diagramData)) > 0

Joined(d, a, b) ==
    \E i \in 1..Len(d.links) :
       \/ d.links[i].source = a /\ d.links[i].target = b
       \/ d.links[i].source = b /\ d.links[i].target = a

SimpleLinks(d) ==
    /\ \A i \in 1..Len(d.links) : d.links[i].source # d.links[i].target
    /\ \A i, j \in 1..Len(d.links) :
          i # j => {d.links[i].source, d.links[i].target}
                      # {d.links[j].source, d.links[j].target}

\* C29: in every snapshot no link joins a node to itself and no two links
\* join the same pair of nodes, in either direction; and the link form,
\* submitted with one node at both ends or with a pair that a link already
\* joins, leaves the history as it was.
C29_LinksStaySimple ==
    /\ [](\A state \in Snapshots : SimpleLinks(state.diagramData))
    /\ [][\A p \in FormLinkPairs :
             (/\ handleAddLink(p[1], p[2])
              /\ p[1] = p[2] \/ Joined(history.present.diagramData, p[1], p[2]))
             => history' = history]_vars

\* the form has just been turned down in a diagram that holds a link made
\* with the form
C29_Witness ==
    /\ lastOp = "handleAddLink"
    /\ Joined(history.present.diagramData, "B1", "G1")
    /\ Joined(history.present.diagramData, "L1", "L2")
    /\ Len(history.present.diagramData.links) = Len(initialData.links) + 1

Content(state) == [diagramData |-> state.diagramData, componentTypes |-> state.componentTypes]

\* C25: an edit whose updater returns a state with the diagram and the
\* registry of the present (a component type saved as it was, the removal of
\* something that is not there) leaves past and future as they were.
C25_NoDuplicateState ==
    [][(nextRef' # nextRef /\ Content(history'.present) = Content(history.present))
          => history'.past = history.past /\ history'.future = history.future]_vars

\* C28: the removal of a node leaves every group that does not hold the node
\* in the list of groups as it was, a group with no members included.
C28_OtherGroupsKept ==
    [][\A nodeId \in RemovedNodeIds :
          PanelRemoveNode(nodeId) =>
             \A g \in Range(GroupsOf(history.present.diagramData)) :
                nodeId \notin Range(g.nodeIds)
                   => g \in Range(GroupsOf(history'.present.diagramData))]_vars

\* C30: while a focus is on, the focused group is a group of the present,
\* under focus on a group of the present, the edits open during a focus,
\* undo, redo and file loads.
C30_FocusedGroupExists ==
    Truthy(focusedGroupId) => focusedGroupId \in PresentGroupIds

\* the positioned nodes of the tick that are no ghosts and are listed in the group
PositionedMembers(group) ==
    { i \in 1..Len(tick.nodes) :
        /\ tick.nodes[i].id \in Range(group.nodeIds)
        /\ ~tick.nodes[i].isExternal
        /\ tick.nodes[i].positioned }

\* C21: on a tick, a group none of whose members is a positioned node of
\* the view that is no ghost (the members are missing, without a position,
\* or ghosts) gets no outline; and the outline of any other group spans the
\* positions of those members alone, padded, so that no ghost and no other
\* node adds to it.
C21_GroupOutline ==
    tick.done =>
      \A g \in Range(GroupsOf(rendered.data)) :
         LET ms == PositionedMembers(g)
             xs == { tick.nodes[i].x : i \in ms }
             ys == { tick.nodes[i].y : i \in ms }
         IN IF ms = {}
            THEN g.id \notin DOMAIN tick.groupPathData
            ELSE /\ g.id \in DOMAIN tick.groupPathData
                 /\ \A x \in xs : /\ tick.groupPathData[g.id].minX + groupPadding <= x
                                   /\ x <= tick.groupPathData[g.id].maxX - groupPadding
                 /\ \A y \in ys : /\ tick.groupPathData[g.id].minY + groupPadding + 20 <= y
                                   /\ y <= tick.groupPathData[g.id].maxY - groupPadding
                 /\ tick.groupPathData[g.id].minX + groupPadding \in xs
                 /\ tick.groupPathData[g.id].maxX - groupPadding \in xs
                 /\ tick.groupPathData[g.id].minY + groupPadding + 20 \in ys
                 /\ tick.groupPathData[g.id].maxY - groupPadding \in ys

\* a focus view after a tick: a ghost has a position, the members of the
\* focused group are displayed and none of them has one, and the group has
\* no outline
C21_Witness ==
    /\ tick.done
    /\ Truthy(focusedGroupId)
    /\ \E i \in 1..Len(tick.nodes) : tick.nodes[i].isExternal /\ tick.nodes[i].positioned
    /\ \E g \in Range(GroupsOf(rendered.data)) :
          /\ Len(g.nodeIds) = 2
          /\ Range(g.nodeIds) \subseteq { tick.nodes[i].id : i \in 1..Len(tick.nodes) }
          /\ g.id \notin DOMAIN tick.groupPathData

====
